---- MODULE Spec2Model ----
(***************************************************************************)
(* Verification model of the resumable concurrent download orchestrator   *)
(* of crawl-law-data: download_file and its <destination>.lock protocol,  *)
(* FastDownloader (the process-pool path), ProgressTracker (the ledger)   *)
(* and process_batch_file / process_excel_file.                           *)
(***************************************************************************)
EXTENDS Integers, Sequences, FiniteSets, TLC

(***************************************************************************)
(* Bounds of the model.                                                    *)
(***************************************************************************)
NumWorkers == 3
NumTasks == 4
TasksPerProc == 3
PoolBatchSize == 2
ConcurrentLimit == 2
MaxOps == 3
BatchLen == 2
MaxLinks == 2
MaxRuns == 2
MaxRows == 4
MaxChunk == 3
max_processes == 2
NumFiles == 2
ChunksPerFile == 3
MaxFiles == 3
MaxCalls == 3
MaxValueLen == 5
MaxRecordings == 3
MaxStemLen == 7
RecursionLimit == 3

Workers == 1..NumWorkers

\* An inode of the lock file is named after the worker whose open() created it.
Inodes == 1..NumWorkers

None == "None"

Tasks == 1..NumTasks
Paths == {"a.docx", "b.pdf"}
URLs == {"u1", "u2"}
\* An exception text with a carriage return in it (str(e) is stored as it comes).
CrError == "connection reset\r\n"

Errors == {"Download failed", "Retry failed", CrError}

VARIABLES
    \* ---- download_file: one destination path and its lock file ----
    posix,        \* TRUE: unlink of an open file succeeds; FALSE: it raises OSError
    pc,           \* position of each download_file call
    retry,        \* retry_mode of each call
    fh,           \* portalocker file handle of each call: an inode, or 0
    lockPath,     \* inode the path <destination>.lock names, or 0 when absent
    flockHolder,  \* per inode: the call holding the exclusive flock, or 0
    dest,         \* destination file: "absent", "partial" or "complete"
    destOpen,     \* calls that have the destination open for writing
    result,       \* (success, error) returned by each call
    initExists,   \* whether the destination existed before the calls started
    acquired,     \* calls that acquired the lock
    checked,      \* calls that ran the post-acquisition existence check
    fetched,      \* calls that issued the HTTP request
    wrote,        \* calls that opened the destination for writing
    \* ---- FastDownloader: the process-pool path ----
    tdest,        \* destination path each task resolves to
    apc,          \* position of each download_file_async task
    pfile,        \* per path: "absent", "partial" or "complete"
    pOpen,        \* per path: tasks that have it open for writing
    pInit,        \* per path: whether it existed before the run
    aresult,      \* (success, error) returned by each task
    afetched,     \* tasks that issued session.get
    awrites,      \* per path: the tasks that opened it for writing, in order
    \* ---- ProgressTracker: the ledger of one batch file ----
    tpc,          \* position of the process owning the tracker
    progress,     \* self.progress: processed urls and failure entries
    files,        \* the ledger file and its temp file on disk
    backups,      \* the <progress_file>.<timestamp>.bak copies on disk
    clock,        \* datetime.now(), advanced by every mutating call
    op,           \* the call in progress
    lastOp,       \* the last call that returned
    committed,    \* the ledger content installed by the last completed replace
    crashedAt,    \* position at which the process was last killed
    lastError,    \* per url: the error of the tracker's latest mark_failure call
    \* ---- process_batch_file / process_excel_file over one batch file ----
    bpc,          \* position of the run
    mode,         \* "sequential": process_batch_file; "pool": process_excel_file
    df,           \* the Url column of the batch file
    todo,         \* the rows the run iterates over
    idx,          \* the next row of todo
    runs,         \* runs started so far
    submitted,    \* urls handed to a worker in the current run
    outcomes,     \* per url: the download results of the current run
    committedBefore,  \* urls with a committed success entry at the last kill
    \* ---- process_excel_file over the rows of one batch file ----
    items,        \* the rows of the file, numbered
    chunk_size,   \* config["chunk_size"]
    xpc,          \* position of process_excel_file
    xi,           \* the loop variable i of the chunking loop
    chunks,       \* the chunks list
    yielded,      \* what BatchProcessor.process_batches yields for the rows
    futures,      \* the submitted chunks: arguments, state, results so far
    cidx,         \* the next future of the collection loop
    collected,    \* futures whose result was collected
    logged,       \* futures whose exception was logged
    crashed,      \* futures whose process died
    completed,    \* the completed counter
    \* ---- crawler.main over the batch files ----
    filePc,       \* per batch file: the state of its process_excel_file call
    chunkPc,      \* per batch file and chunk: the state of its future
    \* ---- remove_duplicate_documents over the download folder ----
    version,      \* which copy of remove_duplicate_documents runs
    tree,         \* the files under the download folder
    tree0,        \* the files when the pass started
    dpc,          \* position of the pass
    work,         \* the pdf files still to be removed
    duplicates_found,  \* the counter returned first
    space_saved,  \* the byte counter returned second
    deleted,      \* files os.remove has removed
    undeleted,    \* files whose getsize or remove raised
    dlog,         \* files named by a "Removed duplicate PDF" log record
    \* ---- DownloadStats and the merges of a run ----
    building,     \* the chunk result whose url is being downloaded, or none
    st,           \* the DownloadStats of that url
    calls,        \* the downloads recorded in st
    chunkResult,  \* per result: the downloads list process_url_chunk returned
    merged,       \* the results merged so far
    stats,        \* the DownloadStats of process_excel_file
    total_stats,  \* the DownloadStats of crawler.main
    \* ---- crawl/verifier.py: safe_split_fields ----
    cell,        \* the cell handed to safe_split_fields
    fields,       \* the list it returned
    spc,          \* where the call is
    \* ---- utils/utils.py DownloadStatus and utils/common.py DownloadStats lists ----
    status,       \* a DownloadStatus object
    dstats,       \* a DownloadStats object
    recordings,   \* the attempts recorded so far <<object, url, success>>
    direct,       \* add_success was called on dstats directly
    \* ---- the sub-batches of one task list ----
    variant,      \* which sub-batch loop runs
    batch_size,   \* the size of a sub-batch
    max_workers,  \* the threads of the executor, the permits of the semaphore
    tstate,       \* per task: pending, running or done
    cur,          \* the sub-batch being run
    ppc,          \* position of the loop
    pauses,       \* the sub-batches after which a pause elapsed
    \* ---- the chunk_size setting ----
    settings,     \* BatchConfig.settings, the chunk_size of the download section
    batchSettings, \* BatchSettings.chunk_size
    config_file,  \* the chunk_size in the saved config file, 0 when there is no file
    \* ---- get_base_name on any file name ----
    filename,     \* a file name the walk found: its stem and its extension
    base_name,    \* the base key computed for it
    gpc,          \* where the walk is with the file
    \* ---- BatchConfig.load and _restore_from_backup ----
    cfile,        \* the config file on disk
    cfile0,       \* the config file when load was first called
    bak,          \* the file <config_file>.bak
    lpc,          \* position of the innermost load call
    depth,        \* load calls nested inside the first one
    restores,     \* copies of the backup over the config file
    loaded,       \* the chunk_size in effect
    lresult       \* what the call that returned last returned

lockVars == <<posix, pc, retry, fh, lockPath, flockHolder, dest, destOpen,
              result, initExists, acquired, checked, fetched, wrote>>

poolVars == <<tdest, apc, pfile, pOpen, pInit, aresult, afetched, awrites>>

ledgerVars == <<tpc, progress, files, backups, clock, op, lastOp, committed,
                crashedAt, lastError>>

batchVars == <<bpc, mode, df, todo, idx, runs, submitted, outcomes,
               committedBefore>>

chunkVars == <<items, chunk_size, xpc, xi, chunks, yielded, futures, cidx,
               collected, logged, crashed, completed>>

crawlVars == <<filePc, chunkPc>>

dedupVars == <<version, tree, tree0, dpc, work, duplicates_found, space_saved,
               deleted, undeleted, dlog>>

statsVars == <<building, st, calls, chunkResult, merged, stats, total_stats>>

splitVars == <<cell, fields, spc>>

statusVars == <<status, dstats, recordings, direct>>

paceVars == <<variant, batch_size, max_workers, tstate, cur, ppc, pauses>>

configVars == <<settings, batchSettings, config_file>>

baseVars == <<filename, base_name, gpc>>

restoreVars == <<cfile, cfile0, bak, lpc, depth, restores, loaded, lresult>>

vars == <<lockVars, poolVars, ledgerVars, batchVars, chunkVars, crawlVars, dedupVars, statsVars, splitVars, statusVars, paceVars, configVars, baseVars, restoreVars>>

notLockVars == <<poolVars, ledgerVars, batchVars, chunkVars, crawlVars, dedupVars, statsVars, splitVars, statusVars, paceVars, configVars, baseVars, restoreVars>>
notPoolVars == <<lockVars, ledgerVars, batchVars, chunkVars, crawlVars, dedupVars, statsVars, splitVars, statusVars, paceVars, configVars, baseVars, restoreVars>>
notLedgerVars == <<lockVars, poolVars, batchVars, chunkVars, crawlVars, dedupVars, statsVars, splitVars, statusVars, paceVars, configVars, baseVars, restoreVars>>
notBatchVars == <<lockVars, poolVars, chunkVars, crawlVars, dedupVars, statsVars, splitVars, statusVars, paceVars, configVars, baseVars, restoreVars>>
notChunkVars == <<lockVars, poolVars, ledgerVars, batchVars, crawlVars, dedupVars, statsVars, splitVars, statusVars, paceVars, configVars, baseVars, restoreVars>>
notCrawlVars == <<lockVars, poolVars, ledgerVars, batchVars, chunkVars, dedupVars, statsVars, splitVars, statusVars, paceVars, configVars, baseVars, restoreVars>>
notDedupVars == <<lockVars, poolVars, ledgerVars, batchVars, chunkVars, crawlVars, statsVars, splitVars, statusVars, paceVars, configVars, baseVars, restoreVars>>
notStatsVars == <<lockVars, poolVars, ledgerVars, batchVars, chunkVars, crawlVars, dedupVars, splitVars, statusVars, paceVars, configVars, baseVars, restoreVars>>
notSplitVars == <<lockVars, poolVars, ledgerVars, batchVars, chunkVars, crawlVars, dedupVars, statsVars, statusVars, paceVars, configVars, baseVars, restoreVars>>
notStatusVars == <<lockVars, poolVars, ledgerVars, batchVars, chunkVars, crawlVars, dedupVars, statsVars, splitVars, paceVars, configVars, baseVars, restoreVars>>
notPaceVars == <<lockVars, poolVars, ledgerVars, batchVars, chunkVars, crawlVars, dedupVars, statsVars, splitVars, statusVars, configVars, baseVars, restoreVars>>
notConfigVars == <<lockVars, poolVars, ledgerVars, batchVars, chunkVars, crawlVars, dedupVars, statsVars, splitVars, statusVars, paceVars, baseVars, restoreVars>>
notBaseVars == <<lockVars, poolVars, ledgerVars, batchVars, chunkVars, crawlVars, dedupVars, statsVars, splitVars, statusVars, paceVars, configVars, restoreVars>>
notRestoreVars == <<lockVars, poolVars, ledgerVars, batchVars, chunkVars, crawlVars, dedupVars, statsVars, splitVars, statusVars, paceVars, configVars, baseVars>>

(***************************************************************************)
(* crawl/downloader.py: download_file, _do_download                        *)
(***************************************************************************)
NoResult == <<FALSE, "pending">>
LockedError == "File locked by another process"
Responses == {"200", "404", "exc"}

HoldsLock(w) == fh[w] # 0 /\ flockHolder[fh[w]] = w

\* A block exit that keeps the flock (what an explicit acquire without a scoped
\* release would do on the early return and on the error paths).
ReleasedHolderLeak(w) == flockHolder

\* Leaving the `with portalocker.Lock(...)` block: unlock and close the handle.
ReleasedHolder(w) ==
    IF retry[w] THEN flockHolder ELSE [flockHolder EXCEPT ![fh[w]] = 0]

ReleasedFh(w) == IF retry[w] THEN fh ELSE [fh EXCEPT ![w] = 0]

\* lines 38-57: names are resolved, the folder is made, retry_mode skips the lock.
download_file(w) ==
    /\ pc[w] = "idle"
    /\ \E r \in BOOLEAN :
          /\ retry' = [retry EXCEPT ![w] = r]
          /\ pc' = [pc EXCEPT ![w] = IF r THEN "fetch" ELSE "open"]
    /\ UNCHANGED notLockVars
    /\ UNCHANGED <<posix, fh, lockPath, flockHolder, dest, destOpen, result,
                   initExists, acquired, checked, fetched, wrote>>

\* line 60, portalocker.Lock.__enter__: the lock file is opened in append mode,
\* which creates it when the path names nothing.
LockOpen(w) ==
    /\ pc[w] = "open"
    /\ LET ino == IF lockPath = 0 THEN w ELSE lockPath IN
          /\ fh' = [fh EXCEPT ![w] = ino]
          /\ lockPath' = ino
    /\ pc' = [pc EXCEPT ![w] = "lock"]
    /\ UNCHANGED notLockVars
    /\ UNCHANGED <<posix, retry, flockHolder, dest, destOpen, result,
                   initExists, acquired, checked, fetched, wrote>>

\* An acquisition that goes on to the fetch without the existence check.
LockAcquireNoCheck(w) ==
    /\ pc[w] = "lock"
    /\ flockHolder[fh[w]] = 0
    /\ flockHolder' = [flockHolder EXCEPT ![fh[w]] = w]
    /\ acquired' = acquired \cup {w}
    /\ pc' = [pc EXCEPT ![w] = "fetch"]
    /\ UNCHANGED notLockVars
    /\ UNCHANGED <<posix, retry, fh, lockPath, dest, destOpen, result,
                   initExists, checked, fetched, wrote>>

\* line 60: the non-blocking exclusive flock on the opened handle succeeds.
LockAcquire(w) ==
    /\ pc[w] = "lock"
    /\ flockHolder[fh[w]] = 0
    /\ flockHolder' = [flockHolder EXCEPT ![fh[w]] = w]
    /\ acquired' = acquired \cup {w}
    /\ pc' = [pc EXCEPT ![w] = "check"]
    /\ UNCHANGED notLockVars
    /\ UNCHANGED <<posix, retry, fh, lockPath, dest, destOpen, result,
                   initExists, checked, fetched, wrote>>

\* A timeout caught by the generic handler (the except clauses in the other order).
LockTimeoutGeneric(w) ==
    /\ pc[w] = "lock"
    /\ flockHolder[fh[w]] # 0
    /\ fh' = [fh EXCEPT ![w] = 0]
    /\ result' = [result EXCEPT ![w] = <<FALSE, "exception">>]
    /\ pc' = [pc EXCEPT ![w] = "finally"]
    /\ UNCHANGED notLockVars
    /\ UNCHANGED <<posix, retry, lockPath, flockHolder, dest, destOpen,
                   initExists, acquired, checked, fetched, wrote>>

\* lines 60, 67-69: the flock stayed with another call for the whole timeout.
LockTimeout(w) ==
    /\ pc[w] = "lock"
    /\ flockHolder[fh[w]] # 0
    /\ fh' = [fh EXCEPT ![w] = 0]
    /\ result' = [result EXCEPT ![w] = <<FALSE, LockedError>>]
    /\ pc' = [pc EXCEPT ![w] = "finally"]
    /\ UNCHANGED notLockVars
    /\ UNCHANGED <<posix, retry, lockPath, flockHolder, dest, destOpen,
                   initExists, acquired, checked, fetched, wrote>>

\* lines 61-62: the existence check after the lock is acquired.
CheckExists(w) ==
    /\ pc[w] = "check"
    /\ checked' = checked \cup {w}
    /\ IF dest # "absent"
          THEN /\ result' = [result EXCEPT ![w] = <<TRUE, None>>]
               /\ flockHolder' = ReleasedHolder(w)
               /\ fh' = ReleasedFh(w)
               /\ pc' = [pc EXCEPT ![w] = "finally"]
          ELSE /\ pc' = [pc EXCEPT ![w] = "fetch"]
               /\ UNCHANGED <<result, flockHolder, fh>>
    /\ UNCHANGED notLockVars
    /\ UNCHANGED <<posix, retry, lockPath, dest, destOpen, initExists,
                   acquired, fetched, wrote>>

\* A fetch that takes every response for a success.
do_download_any_status(w) ==
    /\ pc[w] = "fetch"
    /\ fetched' = fetched \cup {w}
    /\ \E resp \in Responses :
          IF resp = "200"
             THEN /\ dest' = "partial"
                  /\ destOpen' = destOpen \cup {w}
                  /\ wrote' = wrote \cup {w}
                  /\ pc' = [pc EXCEPT ![w] = "write"]
                  /\ UNCHANGED <<result, flockHolder, fh>>
             ELSE /\ result' = [result EXCEPT ![w] = <<TRUE, None>>]
                  /\ flockHolder' = ReleasedHolder(w)
                  /\ fh' = ReleasedFh(w)
                  /\ pc' = [pc EXCEPT ![w] = "finally"]
                  /\ UNCHANGED <<dest, destOpen, wrote>>
    /\ UNCHANGED notLockVars
    /\ UNCHANGED <<posix, retry, lockPath, initExists, acquired, checked>>

\* line 87: requests.get is called without a timeout; when the server never
\* answers, the call waits on the socket and nothing wakes it.
GetBlocks(w) ==
    /\ pc[w] = "fetch"
    /\ fetched' = fetched \cup {w}
    /\ pc' = [pc EXCEPT ![w] = "blocked"]
    /\ UNCHANGED notLockVars
    /\ UNCHANGED <<posix, retry, fh, lockPath, flockHolder, dest, destOpen,
                   result, initExists, acquired, checked, wrote>>

\* lines 87-91 and 100-103: requests.get, then open(filepath, "wb") on a 200.
do_download(w) ==
    /\ pc[w] = "fetch"
    /\ fetched' = fetched \cup {w}
    /\ \E resp \in Responses :
          IF resp = "200"
             THEN /\ dest' = "partial"
                  /\ destOpen' = destOpen \cup {w}
                  /\ wrote' = wrote \cup {w}
                  /\ pc' = [pc EXCEPT ![w] = "write"]
                  /\ UNCHANGED <<result, flockHolder, fh>>
             ELSE /\ result' = [result EXCEPT ![w] =
                         <<FALSE, IF resp = "404" THEN "HTTP 404" ELSE "exception">>]
                  /\ flockHolder' = ReleasedHolder(w)
                  /\ fh' = ReleasedFh(w)
                  /\ pc' = [pc EXCEPT ![w] = "finally"]
                  /\ UNCHANGED <<dest, destOpen, wrote>>
    /\ UNCHANGED notLockVars
    /\ UNCHANGED <<posix, retry, lockPath, initExists, acquired, checked>>

\* lines 92-98: the chunks are written, flushed and synced; (True, None).
WriteDone(w) ==
    /\ pc[w] = "write"
    /\ destOpen' = destOpen \ {w}
    /\ dest' = IF destOpen' = {} THEN "complete" ELSE dest
    /\ result' = [result EXCEPT ![w] = <<TRUE, None>>]
    /\ flockHolder' = ReleasedHolder(w)
    /\ fh' = ReleasedFh(w)
    /\ pc' = [pc EXCEPT ![w] = "finally"]
    /\ UNCHANGED notLockVars
    /\ UNCHANGED <<posix, retry, lockPath, initExists, acquired, checked,
                   fetched, wrote>>

\* lines 92-94, 102-103: a write raises; the file opened at line 91 stays.
WriteFail(w) ==
    /\ pc[w] = "write"
    /\ destOpen' = destOpen \ {w}
    /\ result' = [result EXCEPT ![w] = <<FALSE, "exception">>]
    /\ flockHolder' = ReleasedHolder(w)
    /\ fh' = ReleasedFh(w)
    /\ pc' = [pc EXCEPT ![w] = "finally"]
    /\ UNCHANGED notLockVars
    /\ UNCHANGED <<posix, retry, lockPath, dest, initExists, acquired, checked,
                   fetched, wrote>>

\* A finally clause that leaves the lock file in place.
UnlinkLockKeep == lockPath

\* os.unlink(lock_file): on POSIX the name is removed whoever has the file open;
\* where open files cannot be removed it raises OSError while a handle is open.
UnlinkLock ==
    IF lockPath # 0 /\ (posix \/ \A v \in Workers : fh[v] # lockPath)
       THEN 0 ELSE lockPath

\* lines 72-77: the finally clause of every call removes <destination>.lock.
Finally(w) ==
    /\ pc[w] = "finally"
    /\ lockPath' = UnlinkLock
    /\ pc' = [pc EXCEPT ![w] = "done"]
    /\ UNCHANGED notLockVars
    /\ UNCHANGED <<posix, retry, fh, flockHolder, dest, destOpen, result,
                   initExists, acquired, checked, fetched, wrote>>


(***************************************************************************)
(* crawl/downloader.py: download_files_parallel, FastDownloader            *)
(* crawl/processor.py: process_excel_file, process_url_chunk               *)
(***************************************************************************)
\* process_excel_file hands contiguous slices of the task list to the processes
\* of the pool (lines 429-450).
ProcOf(t) == (t - 1) \div TasksPerProc

\* download_files_parallel cuts the tasks of a process into slices of batch_size
\* (lines 122-125); FastDownloader.process_batch gathers one slice at a time.
BatchOf(t) == ((t - 1) % TasksPerProc) \div PoolBatchSize

\* A batch is started only when the previous batch of the process has been awaited.
BatchStarted(t) ==
    \A u \in Tasks :
        (ProcOf(u) = ProcOf(t) /\ BatchOf(u) < BatchOf(t)) => apc[u] = "done"

InSemaphore(t) == apc[t] \in {"sem", "got", "write"}

\* line 405: async with self.download_semaphore.
AsyncEnter(t) ==
    /\ apc[t] = "pending"
    /\ BatchStarted(t)
    /\ Cardinality({u \in Tasks : ProcOf(u) = ProcOf(t) /\ InSemaphore(u)})
          < ConcurrentLimit
    /\ apc' = [apc EXCEPT ![t] = "sem"]
    /\ UNCHANGED <<tdest, pfile, pOpen, pInit, aresult, afetched, awrites>>
    /\ UNCHANGED notPoolVars

\* lines 407-414 and 433-434: the folder is made and the URL is requested; there
\* is no lock and no existence check on this path.
AsyncGet(t) ==
    /\ apc[t] = "sem"
    /\ afetched' = afetched \cup {t}
    /\ \E resp \in Responses :
          IF resp = "200"
             THEN /\ apc' = [apc EXCEPT ![t] = "got"]
                  /\ UNCHANGED aresult
             ELSE /\ apc' = [apc EXCEPT ![t] = "done"]
                  /\ aresult' = [aresult EXCEPT ![t] =
                         <<FALSE, IF resp = "404" THEN "HTTP 404" ELSE "exception">>]
    /\ UNCHANGED <<tdest, pfile, pOpen, pInit, awrites>>
    /\ UNCHANGED notPoolVars

\* line 423: aiofiles.open(filepath, "wb") creates or truncates the destination.
AsyncOpen(t) ==
    /\ apc[t] = "got"
    /\ pfile' = [pfile EXCEPT ![tdest[t]] = "partial"]
    /\ pOpen' = [pOpen EXCEPT ![tdest[t]] = @ \cup {t}]
    /\ awrites' = [awrites EXCEPT ![tdest[t]] = Append(@, t)]
    /\ apc' = [apc EXCEPT ![t] = "write"]
    /\ UNCHANGED <<tdest, pInit, aresult, afetched>>
    /\ UNCHANGED notPoolVars

\* lines 424-431: every chunk is written and the file closed; (True, None).
AsyncWriteDone(t) ==
    /\ apc[t] = "write"
    /\ pOpen' = [pOpen EXCEPT ![tdest[t]] = @ \ {t}]
    /\ pfile' = [pfile EXCEPT ![tdest[t]] =
                    IF pOpen'[tdest[t]] = {} THEN "complete" ELSE @]
    /\ aresult' = [aresult EXCEPT ![t] = <<TRUE, None>>]
    /\ apc' = [apc EXCEPT ![t] = "done"]
    /\ UNCHANGED <<tdest, pInit, afetched, awrites>>
    /\ UNCHANGED notPoolVars

\* lines 424-428 and 433-434: a read or a write raises while streaming.
AsyncWriteFail(t) ==
    /\ apc[t] = "write"
    /\ pOpen' = [pOpen EXCEPT ![tdest[t]] = @ \ {t}]
    /\ aresult' = [aresult EXCEPT ![t] = <<FALSE, "exception">>]
    /\ apc' = [apc EXCEPT ![t] = "done"]
    /\ UNCHANGED <<tdest, pfile, pInit, afetched, awrites>>
    /\ UNCHANGED notPoolVars

PoolIdle ==
    /\ tdest = [t \in Tasks |-> "a.docx"]
    /\ apc = [t \in Tasks |-> "pending"]
    /\ pfile = [p \in Paths |-> "absent"]
    /\ pOpen = [p \in Paths |-> {}]
    /\ pInit = [p \in Paths |-> FALSE]
    /\ aresult = [t \in Tasks |-> NoResult]
    /\ afetched = {}
    /\ awrites = [p \in Paths |-> <<>>]

PoolInit ==
    /\ tdest \in [Tasks -> Paths]
    /\ apc = [t \in Tasks |-> "pending"]
    /\ pfile \in [Paths -> {"absent", "complete"}]
    /\ pOpen = [p \in Paths |-> {}]
    /\ pInit = [p \in Paths |-> pfile[p] # "absent"]
    /\ aresult = [t \in Tasks |-> NoResult]
    /\ afetched = {}
    /\ awrites = [p \in Paths |-> <<>>]

PoolNext ==
    \E t \in Tasks :
        \/ AsyncEnter(t)
        \/ AsyncGet(t)
        \/ AsyncOpen(t)
        \/ AsyncWriteDone(t)
        \/ AsyncWriteFail(t)

(***************************************************************************)
(* crawl/progress_tracker.py: ProgressTracker                              *)
(***************************************************************************)
progress_file == "progress.csv"

temp_file_inplace == progress_file

\* line 54: temp_file = f"{self.progress_file}.tmp"
temp_file == "progress.csv.tmp"

FileNames == {progress_file, temp_file}

\* A file: whether it exists, whether its first line is the header
\* url,status,error,timestamp, and its data rows.
Absent == [exists |-> FALSE, header |-> FALSE, rows |-> <<>>]
EmptyLedger == [exists |-> TRUE, header |-> TRUE, rows |-> <<>>]

\* A line the reader cannot decode: reading it raises.
BadRow == [url |-> "", status |-> "undecodable", error |-> "", timestamp |-> 0]

EmptyProgress == [processed |-> <<>>, failed |-> <<>>]

\* No mark_failure call yet by this tracker.
NoError == [u \in URLs |-> None]

SuccessRow(url, now) ==
    [url |-> url, status |-> "success", error |-> "", timestamp |-> now]

FailedRow(f) ==
    [url |-> f.url, status |-> "failed", error |-> f.error,
     timestamp |-> f.timestamp]

\* lines 62-82: the rows save_progress writes, successes first.
Serialize(pr, now) ==
    [i \in 1..Len(pr.processed) |-> SuccessRow(pr.processed[i], now)]
    \o [i \in 1..Len(pr.failed) |-> FailedRow(pr.failed[i])]

\* lines 25-37: csv.DictReader raises on a line it cannot decode, and
\* row["status"] raises KeyError when the first line is not the header.
ParseRaises(f) ==
    /\ f.exists
    /\ \/ f.header /\ \E i \in 1..Len(f.rows) : f.rows[i] = BadRow
       \/ ~f.header /\ Len(f.rows) >= 2

\* line 25: the ledger is opened for reading in text mode without newline="",
\* so "\r\n" and "\r" inside a quoted field reach the csv reader as "\n".
UniversalNewlines(text) ==
    IF text = CrError THEN "connection reset\n" ELSE text

IsSuccess(r) == r.status = "success"
IsNotSuccess(r) == r.status # "success"

\* lines 27-37: rows with status "success" give processed, all others failed.
Parse(rows) ==
    LET ok == SelectSeq(rows, IsSuccess)
        ko == SelectSeq(rows, IsNotSuccess)
    IN [processed |-> [i \in 1..Len(ok) |-> UniversalNewlines(ok[i].url)],
        failed |-> [i \in 1..Len(ko) |->
                       [url |-> UniversalNewlines(ko[i].url),
                        error |-> UniversalNewlines(ko[i].error),
                        timestamp |-> ko[i].timestamp]]]

RECURSIVE GoodPrefix(_)
GoodPrefix(rows) ==
    IF rows = <<>> \/ Head(rows) = BadRow THEN <<>>
    ELSE <<Head(rows)>> \o GoodPrefix(Tail(rows))

RecoveredProgressKept(f) == IF f.header THEN Parse(GoodPrefix(f.rows)) ELSE EmptyProgress

\* lines 48-49: after a failed load the progress is reset.
RecoveredProgress(f) == EmptyProgress

InProcessed(url) == \E i \in 1..Len(progress.processed) : progress.processed[i] = url
InFailed(url) == \E i \in 1..Len(progress.failed) : progress.failed[i].url = url

\* A filter that keeps every entry (an append without the removal).
WithoutUrlKeep(failed, url) == failed

\* lines 103-107 and 113-117: the failure entries of other urls.
WithoutUrl(failed, url) ==
    LET keep(f) == f.url # url IN SelectSeq(failed, keep)

\* lines 100-107: the in-memory effect of mark_success.
AfterMarkSuccess(pr, url) ==
    IF \E i \in 1..Len(pr.processed) : pr.processed[i] = url THEN pr
    ELSE [processed |-> Append(pr.processed, url),
          failed |-> WithoutUrl(pr.failed, url)]

\* lines 113-121: the in-memory effect of mark_failure.
AfterMarkFailure(pr, url, error, now) ==
    [pr EXCEPT !.failed =
        Append(WithoutUrl(pr.failed, url),
               [url |-> url, error |-> error, timestamp |-> now])]

\* A Python value that is a str, and one that is a dict.
PyStr(text) == <<"str", text>>
PyDict(entry) == <<"dict", entry>>

\* lines 149-151: the list comprehension copies progress["failed"]: what it
\* returns are the failure entries, dicts with url, error and timestamp.
get_pending_urls(pr) == [i \in 1..Len(pr.failed) |-> PyDict(pr.failed[i])]

\* lines 52-88: the ledger file save_progress leaves when it runs to its end.
Saved(pr, now) == [exists |-> TRUE, header |-> TRUE, rows |-> Serialize(pr, now)]

Returned(name, url) ==
    /\ tpc' = "ready"
    /\ lastOp' = <<name, url>>
    /\ op' = <<"none", "">>

\* lines 17-50: the progress a fresh ProgressTracker holds after loading f.
load_progress(f) ==
    IF ~f.exists THEN EmptyProgress
    ELSE IF ParseRaises(f) THEN RecoveredProgress(f)
    ELSE Parse(f.rows)

\* lines 8-50: __init__ and load_progress.
Construct ==
    /\ tpc = "down"
    /\ LET f == files[progress_file] IN
          IF ~f.exists
             THEN /\ progress' = EmptyProgress
                  /\ Returned("init", "")
                  /\ UNCHANGED backups
          ELSE IF ~ParseRaises(f)
             THEN /\ progress' = Parse(f.rows)
                  /\ Returned("init", "")
                  /\ UNCHANGED backups
          ELSE /\ backups' = backups \cup {[time |-> clock, content |-> f]}
               /\ progress' = RecoveredProgress(f)
               /\ op' = <<"recover", "">>
               /\ tpc' = "save_open"
               /\ UNCHANGED lastOp
    /\ UNCHANGED <<files, clock, committed, crashedAt, lastError>>
    /\ UNCHANGED notLedgerVars

\* lines 98-108.
mark_success(url) ==
    /\ tpc = "ready"
    /\ clock < MaxOps
    /\ clock' = clock + 1
    /\ IF ~InProcessed(url)
          THEN /\ progress' = AfterMarkSuccess(progress, url)
               /\ op' = <<"mark_success", url>>
               /\ tpc' = "save_open"
               /\ UNCHANGED lastOp
          ELSE /\ Returned("mark_success", url)
               /\ UNCHANGED progress
    /\ UNCHANGED <<files, backups, committed, crashedAt, lastError>>
    /\ UNCHANGED notLedgerVars

\* lines 110-122.
mark_failure(url, error) ==
    /\ tpc = "ready"
    /\ clock < MaxOps
    /\ clock' = clock + 1
    /\ progress' = AfterMarkFailure(progress, url, error, clock')
    /\ lastError' = [lastError EXCEPT ![url] = error]
    /\ op' = <<"mark_failure", url>>
    /\ tpc' = "save_open"
    /\ UNCHANGED <<files, backups, lastOp, committed, crashedAt>>
    /\ UNCHANGED notLedgerVars

\* lines 140-143.
clear_progress ==
    /\ tpc = "ready"
    /\ clock < MaxOps
    /\ clock' = clock + 1
    /\ progress' = EmptyProgress
    /\ op' = <<"clear_progress", "">>
    /\ tpc' = "save_open"
    /\ UNCHANGED <<files, backups, lastOp, committed, crashedAt, lastError>>
    /\ UNCHANGED notLedgerVars

\* lines 58-60: the temp file is opened for writing and the header written.
SaveOpen ==
    /\ tpc = "save_open"
    /\ files' = [files EXCEPT ![temp_file] = EmptyLedger]
    /\ tpc' = "save_rows"
    /\ UNCHANGED <<progress, backups, clock, op, lastOp, committed, crashedAt,
                   lastError>>
    /\ UNCHANGED notLedgerVars

\* lines 63-82: one more row reaches the temp file.
SaveRow ==
    /\ tpc = "save_rows"
    /\ LET rows == Serialize(progress, clock)
           n == Len(files[temp_file].rows)
       IN /\ n < Len(rows)
          /\ files' = [files EXCEPT ![temp_file].rows = Append(@, rows[n + 1])]
    /\ UNCHANGED <<tpc, progress, backups, clock, op, lastOp, committed, crashedAt,
                   lastError>>
    /\ UNCHANGED notLedgerVars

\* lines 84-88: the temp file is closed and replaces the ledger file.
SaveReplace ==
    /\ tpc = "save_rows"
    /\ Len(files[temp_file].rows) = Len(Serialize(progress, clock))
    /\ files' = [n \in FileNames |->
                    IF n = progress_file THEN files[temp_file] ELSE Absent]
    /\ committed' = Saved(progress, clock)
    /\ Returned(op[1], op[2])
    /\ UNCHANGED <<progress, backups, clock, crashedAt, lastError>>
    /\ UNCHANGED notLedgerVars

\* The process is killed, or exits: the tracker is gone, the files stay.
Kill ==
    /\ tpc # "down"
    /\ crashedAt' = tpc
    /\ tpc' = "down"
    /\ progress' = EmptyProgress
    /\ op' = <<"none", "">>
    /\ lastOp' = <<"none", "">>
    /\ lastError' = NoError
    /\ UNCHANGED <<files, backups, clock, committed>>
    /\ UNCHANGED notLedgerVars

\* Ledger files found on disk that the reader cannot parse.
CorruptLedgers ==
    { [exists |-> TRUE, header |-> TRUE, rows |-> <<BadRow>>],
      [exists |-> TRUE, header |-> TRUE,
       rows |-> <<SuccessRow("u1", 0), BadRow>>],
      [exists |-> TRUE, header |-> TRUE,
       rows |-> <<[url |-> "u2", status |-> "failed", error |-> "Download failed",
                   timestamp |-> 0], BadRow, SuccessRow("u1", 0)>>],
      [exists |-> TRUE, header |-> FALSE,
       rows |-> <<SuccessRow("u1", 0), SuccessRow("u2", 0)>>] }

LedgerIdle ==
    /\ tpc = "down"
    /\ progress = EmptyProgress
    /\ files = [n \in FileNames |-> Absent]
    /\ backups = {}
    /\ clock = 0
    /\ op = <<"none", "">>
    /\ lastOp = <<"none", "">>
    /\ committed = Absent
    /\ crashedAt = "never"
    /\ lastError = NoError

LedgerInit ==
    /\ tpc = "down"
    /\ progress = EmptyProgress
    /\ \E f \in {Absent} \cup CorruptLedgers :
          /\ files = [n \in FileNames |-> IF n = progress_file THEN f ELSE Absent]
          /\ committed = f
    /\ backups = {}
    /\ clock = 0
    /\ op = <<"none", "">>
    /\ lastOp = <<"none", "">>
    /\ crashedAt = "never"
    /\ lastError = NoError

LedgerNext ==
    \/ Construct
    \/ \E url \in URLs : mark_success(url)
    \/ \E url \in URLs, error \in Errors : mark_failure(url, error)
    \/ clear_progress
    \/ SaveOpen
    \/ SaveRow
    \/ SaveReplace
    \/ Kill

(***************************************************************************)
(* crawl/processor.py: process_batch_file, process_document,               *)
(* process_excel_file, process_url_chunk                                   *)
(***************************************************************************)
\* What one download_file call returns (downloader.py lines 62-71, 98-103).
DownloadResults ==
    { <<TRUE, None>>, <<FALSE, "HTTP 404">>, <<FALSE, LockedError>>,
      <<FALSE, "exception">> }

\* The downloads of one url: one result per link find_document_links returned.
LinkResults == UNION {[1..n -> DownloadResults] : n \in 0..MaxLinks}

SeqRange(sq) == {sq[i] : i \in 1..Len(sq)}

\* process_document, lines 474-495: False without links, True otherwise,
\* whatever the downloads returned.
process_document(res) == Len(res) > 0

\* lines 202-221: the tracker is loaded and the processed urls are filtered out.
StartBatchFile ==
    /\ bpc = "down"
    /\ runs < MaxRuns
    /\ runs' = runs + 1
    /\ mode' = "sequential"
    /\ progress' = IF files[progress_file].exists
                      THEN Parse(files[progress_file].rows) ELSE EmptyProgress
    /\ LET processed_urls == SeqRange(progress'.processed)
           pending(u) == u \notin processed_urls
       IN todo' = SelectSeq(df, pending)
    /\ idx' = 1
    /\ submitted' = {}
    /\ outcomes' = [u \in URLs |-> {}]
    /\ bpc' = "loop"
    /\ UNCHANGED <<df, committedBefore>>
    /\ lastError' = NoError
    /\ UNCHANGED <<tpc, files, backups, clock, op, lastOp, committed, crashedAt>>
    /\ UNCHANGED notBatchVars

\* lines 228-252: one row: process_document, then mark_success or mark_failure.
BatchRow ==
    /\ bpc = "loop"
    /\ mode = "sequential"
    /\ idx <= Len(todo)
    /\ LET url == todo[idx] IN
       \E res \in LinkResults, raised \in BOOLEAN :
          /\ submitted' = submitted \cup {url}
          /\ outcomes' = [outcomes EXCEPT ![url] = @ \cup SeqRange(res)]
          /\ clock' = clock + 1
          /\ progress' =
                IF raised THEN AfterMarkFailure(progress, url, "exception", clock')
                ELSE IF process_document(res) THEN AfterMarkSuccess(progress, url)
                ELSE AfterMarkFailure(progress, url, "Download failed", clock')
          /\ IF progress' # progress
                THEN /\ files' = [files EXCEPT ![progress_file] = Saved(progress', clock')]
                     /\ committed' = Saved(progress', clock')
                ELSE UNCHANGED <<files, committed>>
          /\ lastError' =
                IF raised THEN [lastError EXCEPT ![url] = "exception"]
                ELSE IF process_document(res) THEN lastError
                ELSE [lastError EXCEPT ![url] = "Download failed"]
    /\ idx' = idx + 1
    /\ UNCHANGED <<bpc, mode, df, todo, runs, committedBefore>>
    /\ UNCHANGED <<tpc, backups, op, lastOp, crashedAt>>
    /\ UNCHANGED notBatchVars

\* lines 257-258: the loop is over.
BatchDone ==
    /\ bpc = "loop"
    /\ idx > Len(todo)
    /\ bpc' = "finished"
    /\ UNCHANGED <<mode, df, todo, idx, runs, submitted, outcomes, committedBefore>>
    /\ UNCHANGED ledgerVars
    /\ UNCHANGED notBatchVars

\* process_excel_file, lines 416-450: every row of the file is put in a chunk and
\* submitted; no ledger is read.
StartExcelFile ==
    /\ bpc = "down"
    /\ runs < MaxRuns
    /\ runs' = runs + 1
    /\ mode' = "pool"
    /\ todo' = df
    /\ idx' = 1
    /\ submitted' = {}
    /\ outcomes' = [u \in URLs |-> {}]
    /\ bpc' = "loop"
    /\ UNCHANGED <<df, committedBefore>>
    /\ UNCHANGED ledgerVars
    /\ UNCHANGED notBatchVars

\* process_url_chunk, lines 360-400: one url of a chunk: its links are fetched by
\* download_files_parallel; no ledger is written.
ChunkUrl ==
    /\ bpc = "loop"
    /\ mode = "pool"
    /\ idx <= Len(todo)
    /\ LET url == todo[idx] IN
       \E res \in LinkResults :
          /\ submitted' = submitted \cup {url}
          /\ outcomes' = [outcomes EXCEPT ![url] = @ \cup SeqRange(res)]
    /\ idx' = idx + 1
    /\ UNCHANGED <<bpc, mode, df, todo, runs, committedBefore>>
    /\ UNCHANGED ledgerVars
    /\ UNCHANGED notBatchVars

CommittedSuccess ==
    {files[progress_file].rows[i].url : i \in
        {j \in 1..Len(files[progress_file].rows) :
            files[progress_file].rows[j].status = "success"}}

\* The run is killed, or ends; the next run starts from the files on disk.
BatchKill ==
    /\ bpc # "down"
    /\ bpc' = "down"
    /\ committedBefore' = CommittedSuccess
    /\ progress' = EmptyProgress
    /\ todo' = <<>>
    /\ idx' = 1
    /\ UNCHANGED <<mode, df, runs, submitted, outcomes>>
    /\ lastError' = NoError
    /\ UNCHANGED <<tpc, files, backups, clock, op, lastOp, committed, crashedAt>>
    /\ UNCHANGED notBatchVars

BatchIdle ==
    /\ bpc = "down"
    /\ mode = "sequential"
    /\ df = <<>>
    /\ todo = <<>>
    /\ idx = 1
    /\ runs = 0
    /\ submitted = {}
    /\ outcomes = [u \in URLs |-> {}]
    /\ committedBefore = {}

BatchInit ==
    /\ bpc = "down"
    /\ mode = "sequential"
    /\ df \in [1..BatchLen -> URLs]
    /\ todo = <<>>
    /\ idx = 1
    /\ runs = 0
    /\ submitted = {}
    /\ outcomes = [u \in URLs |-> {}]
    /\ committedBefore = {}

BatchNext ==
    \/ StartBatchFile
    \/ BatchRow
    \/ BatchDone
    \/ StartExcelFile
    \/ ChunkUrl
    \/ BatchKill

(***************************************************************************)
(* crawl/processor.py: BatchProcessor.process_batches, process_excel_file, *)
(* process_url_chunk over the rows of one batch file                       *)
(***************************************************************************)
Min(a, b) == IF a <= b THEN a ELSE b

\* What happens to one url of a chunk (lines 362-398): no links found, a download
\* succeeds, every download fails, or an exception is raised on the way.
UrlOutcomes == {"nolinks", "ok", "allfail", "raise"}

\* A slice that stops one row early.
SliceShort(sq, i, n) == SubSeq(sq, i + 1, Min(i + n, Len(sq)) - 1)

\* df.iloc[i : i + chunk_size], line 426.
Slice(sq, i, n) == SubSeq(sq, i + 1, Min(i + n, Len(sq)))

\* lines 100-107: the generator, with the batch under construction and the
\* batches yielded so far.
RECURSIVE BatchesFrom(_, _, _, _)
BatchesFrom(rest, n, batch, out) ==
    IF rest = <<>>
       THEN IF batch # <<>> THEN Append(out, batch) ELSE out
       ELSE LET b == Append(batch, Head(rest)) IN
            IF Len(b) >= n
               THEN BatchesFrom(Tail(rest), n, <<>>, Append(out, b))
               ELSE BatchesFrom(Tail(rest), n, b, out)

process_batches(sq, n) == BatchesFrom(sq, n, <<>>, <<>>)

\* A future as submitted at lines 444-450.
NewFuture(chunk) ==
    [urls |-> chunk, state |-> "queued", results |-> <<>>, downloads |-> <<>>,
     ran |-> <<>>]

Running == {k \in 1..Len(futures) : futures[k].state = "running"}

\* utils/utils.py line 162 drives the generator over the task list.
RunProcessBatches ==
    /\ xpc = "start"
    /\ yielded' = process_batches(items, chunk_size)
    /\ xpc' = "chunking"
    /\ UNCHANGED <<items, chunk_size, xi, chunks, futures, cidx, collected,
                   logged, crashed, completed>>
    /\ UNCHANGED notChunkVars

\* lines 425-437: one turn of `for i in range(0, len(df), chunk_size)`.
MakeChunk ==
    /\ xpc = "chunking"
    /\ xi < Len(items)
    /\ chunks' = Append(chunks, Slice(items, xi, chunk_size))
    /\ xi' = xi + chunk_size
    /\ UNCHANGED <<items, chunk_size, xpc, yielded, futures, cidx, collected,
                   logged, crashed, completed>>
    /\ UNCHANGED notChunkVars

\* lines 441-450: the pool is made and the chunks are submitted in order.
SubmitChunk ==
    /\ xpc \in {"chunking", "submitting"}
    /\ xi >= Len(items)
    /\ IF Len(futures) < Len(chunks)
          THEN /\ futures' = Append(futures, NewFuture(chunks[Len(futures) + 1]))
               /\ xpc' = "submitting"
          ELSE /\ xpc' = "collecting"
               /\ UNCHANGED futures
    /\ UNCHANGED <<items, chunk_size, xi, chunks, yielded, cidx, collected,
                   logged, crashed, completed>>
    /\ UNCHANGED notChunkVars

\* ProcessPoolExecutor(max_workers=max_processes): a free process takes a chunk.
StartChunk(k) ==
    /\ xpc \in {"submitting", "collecting"}
    /\ k \in 1..Len(futures)
    /\ futures[k].state = "queued"
    /\ Cardinality(Running) < max_processes
    /\ futures' = [futures EXCEPT ![k].state = "running"]
    /\ UNCHANGED <<items, chunk_size, xpc, xi, chunks, yielded, cidx, collected,
                   logged, crashed, completed>>
    /\ UNCHANGED notChunkVars

\* The next url of the chunk when an exception ends the whole call.
UrlStepNoCatch(k, o) ==
    LET f == futures[k]
        url == f.urls[Len(f.ran) + 1]
    IN IF o = "raise"
          THEN [f EXCEPT !.ran = Append(@, url), !.state = "raised"]
          ELSE [f EXCEPT !.ran = Append(@, url),
                         !.results = Append(@, o = "ok"),
                         !.downloads = Append(@, IF o = "nolinks" THEN None
                                                  ELSE "summary")]

\* process_url_chunk, lines 360-398: the next url of the chunk; an exception is
\* caught at the url and recorded as (False, None).
UrlStep(k, o) ==
    LET f == futures[k]
        url == f.urls[Len(f.ran) + 1]
    IN [f EXCEPT !.ran = Append(@, url),
                 !.results = Append(@, o = "ok"),
                 !.downloads = Append(@, IF o \in {"nolinks", "raise"} THEN None
                                          ELSE "summary")]

ChunkUrlStep(k) ==
    /\ k \in 1..Len(futures)
    /\ futures[k].state = "running"
    /\ Len(futures[k].ran) < Len(futures[k].urls)
    /\ \E o \in UrlOutcomes : futures' = [futures EXCEPT ![k] = UrlStep(k, o)]
    /\ UNCHANGED <<items, chunk_size, xpc, xi, chunks, yielded, cidx, collected,
                   logged, crashed, completed>>
    /\ UNCHANGED notChunkVars

\* line 400: return results, downloads.
ChunkReturn(k) ==
    /\ k \in 1..Len(futures)
    /\ futures[k].state = "running"
    /\ Len(futures[k].ran) = Len(futures[k].urls)
    /\ futures' = [futures EXCEPT ![k].state = "done"]
    /\ UNCHANGED <<items, chunk_size, xpc, xi, chunks, yielded, cidx, collected,
                   logged, crashed, completed>>
    /\ UNCHANGED notChunkVars

\* The process running the chunk dies, or the call cannot be shipped: the
\* future's result() raises.
ChunkCrash(k) ==
    /\ k \in 1..Len(futures)
    /\ futures[k].state = "running"
    /\ futures' = [futures EXCEPT ![k].state = "raised"]
    /\ crashed' = crashed \cup {k}
    /\ UNCHANGED <<items, chunk_size, xpc, xi, chunks, yielded, cidx, collected,
                   logged, completed>>
    /\ UNCHANGED notChunkVars

Successes(results) == Cardinality({i \in 1..Len(results) : results[i]})

\* lines 452-465: future.result() of the futures in submission order.
Collect ==
    /\ xpc = "collecting"
    /\ cidx <= Len(futures)
    /\ futures[cidx].state \in {"done", "raised"}
    /\ IF futures[cidx].state = "done"
          THEN /\ collected' = collected \cup {cidx}
               /\ completed' = completed + Successes(futures[cidx].results)
               /\ UNCHANGED logged
          ELSE /\ logged' = logged \cup {cidx}
               /\ UNCHANGED <<collected, completed>>
    /\ cidx' = cidx + 1
    /\ UNCHANGED <<items, chunk_size, xpc, xi, chunks, yielded, futures, crashed>>
    /\ UNCHANGED notChunkVars

\* line 467: return stats, completed.
ExcelReturn ==
    /\ xpc = "collecting"
    /\ cidx > Len(futures)
    /\ xpc' = "finished"
    /\ UNCHANGED <<items, chunk_size, xi, chunks, yielded, futures, cidx,
                   collected, logged, crashed, completed>>
    /\ UNCHANGED notChunkVars

ChunkIdle ==
    /\ items = <<>>
    /\ chunk_size = 1
    /\ xpc = "start"
    /\ xi = 0
    /\ chunks = <<>>
    /\ yielded = <<>>
    /\ futures = <<>>
    /\ cidx = 1
    /\ collected = {}
    /\ logged = {}
    /\ crashed = {}
    /\ completed = 0

\* The rows of the file are numbered tasks; chunk_size is any size from 1.
ChunkInit ==
    /\ \E n \in 0..MaxRows : items = [i \in 1..n |-> i]
    /\ chunk_size \in 1..MaxChunk
    /\ xpc = "start"
    /\ xi = 0
    /\ chunks = <<>>
    /\ yielded = <<>>
    /\ futures = <<>>
    /\ cidx = 1
    /\ collected = {}
    /\ logged = {}
    /\ crashed = {}
    /\ completed = 0

ChunkNext ==
    \/ RunProcessBatches
    \/ MakeChunk
    \/ SubmitChunk
    \/ \E k \in 1..MaxRows : StartChunk(k)
    \/ \E k \in 1..MaxRows : ChunkUrlStep(k)
    \/ \E k \in 1..MaxRows : ChunkReturn(k)
    \/ \E k \in 1..MaxRows : ChunkCrash(k)
    \/ Collect
    \/ ExcelReturn

(***************************************************************************)
(* crawl/crawler.py: main runs process_excel_file for every batch file     *)
(***************************************************************************)
Files == 1..NumFiles
FileChunks == 1..ChunksPerFile

RunningIn(f) == {c \in FileChunks : chunkPc[f][c] = "running"}

\* crawler.py lines 122-123: ProcessPoolExecutor(max_workers=len(excel_files))
\* starts process_excel_file for every file at once.
StartFile(f) ==
    /\ filePc[f] = "queued"
    /\ Cardinality({g \in Files : filePc[g] = "running"}) < NumFiles
    /\ filePc' = [filePc EXCEPT ![f] = "running"]
    /\ UNCHANGED chunkPc
    /\ UNCHANGED notCrawlVars

\* processor.py lines 441-450: the file's own pool of max_processes processes
\* takes a chunk of the file.
StartFileChunk(f, c) ==
    /\ filePc[f] = "running"
    /\ chunkPc[f][c] = "queued"
    /\ Cardinality(RunningIn(f)) < max_processes
    /\ chunkPc' = [chunkPc EXCEPT ![f][c] = "running"]
    /\ UNCHANGED filePc
    /\ UNCHANGED notCrawlVars

\* process_url_chunk returns or raises: the process is free again.
EndFileChunk(f, c) ==
    /\ chunkPc[f][c] = "running"
    /\ chunkPc' = [chunkPc EXCEPT ![f][c] = "done"]
    /\ UNCHANGED filePc
    /\ UNCHANGED notCrawlVars

\* processor.py lines 452-467: every future of the file has been awaited.
EndFile(f) ==
    /\ filePc[f] = "running"
    /\ \A c \in FileChunks : chunkPc[f][c] = "done"
    /\ filePc' = [filePc EXCEPT ![f] = "done"]
    /\ UNCHANGED chunkPc
    /\ UNCHANGED notCrawlVars

CrawlIdle ==
    /\ filePc = [f \in Files |-> "queued"]
    /\ chunkPc = [f \in Files |-> [c \in FileChunks |-> "queued"]]

CrawlInit == CrawlIdle

CrawlNext ==
    \E f \in Files :
        \/ StartFile(f)
        \/ EndFile(f)
        \/ \E c \in FileChunks : StartFileChunk(f, c) \/ EndFileChunk(f, c)

(***************************************************************************)
(* crawl/downloader.py and utils/utils.py: remove_duplicate_documents      *)
(***************************************************************************)
Dirs == {"downloads/tax/2020", "downloads/land/2021"}
\* File names without their extension, as the characters they are made of.
StemLaw == <<"l", "a", "w">>
StemLawId == <<"l", "a", "w", "_", "1", "2", "3", "4", "5", "6">>
StemTax == <<"t", "a", "x">>

FileStems == {StemLaw, StemLawId, StemTax}
Extensions == {".pdf", ".PDF", ".docx", ".doc", ".txt"}

AllFiles == [dir : Dirs, stem : FileStems, ext : Extensions]

\* The trees of at most n files.
RECURSIVE TreesUpTo(_)
TreesUpTo(n) ==
    IF n = 0 THEN {{}}
    ELSE LET smaller == TreesUpTo(n - 1)
         IN smaller \cup {t \cup {f} : t \in smaller, f \in AllFiles}

\* os.path.getsize of a file of the tree.
Size(f) == IF f.dir = "downloads/tax/2020" THEN 1 ELSE 2

RECURSIVE SumSizes(_)
SumSizes(fs) ==
    IF fs = {} THEN 0
    ELSE LET f == CHOOSE x \in fs : TRUE IN Size(f) + SumSizes(fs \ {f})

\* str.lower() on an extension.
Lower(ext) == IF ext = ".PDF" THEN ".pdf" ELSE ext

Digits == {"0", "1", "2", "3", "4", "5", "6", "7", "8", "9"}

\* The length of the document id the pattern looks for (line 160, \d{6}).
IdDigits == 6

EndsInId(base) ==
    /\ Len(base) >= IdDigits
    /\ \A i \in (Len(base) - IdDigits + 1)..Len(base) : base[i] \in Digits

\* line 160: re.sub(r"_?\d{6}$", "", base): the last six characters go when they
\* are digits, whatever stands before them, and an underscore before them goes
\* too.
strip_document_id(base) ==
    IF ~EndsInId(base) THEN base
    ELSE IF Len(base) > IdDigits /\ base[Len(base) - IdDigits] = "_"
       THEN SubSeq(base, 1, Len(base) - IdDigits - 1)
       ELSE SubSeq(base, 1, Len(base) - IdDigits)

\* lines 155-160: get_base_name: os.path.splitext(filename)[0] without the
\* document id.
get_base_name(f) == strip_document_id(f.stem)

\* The file filter of the walk: downloader.py line 168 lowers the name first,
\* utils.py line 328 compares it as it is.
Considered(v, f) ==
    IF v = "downloader" THEN Lower(f.ext) \in {".pdf", ".doc", ".docx"}
    ELSE f.ext \in {".pdf", ".doc", ".docx"}

\* lines 173-181: the two lists of a group.
GroupDoc(v, t, base) ==
    {f \in t : Considered(v, f) /\ get_base_name(f) = base
               /\ Lower(f.ext) \in {".doc", ".docx"}}

GroupPdf(v, t, base) ==
    {f \in t : Considered(v, f) /\ get_base_name(f) = base
               /\ Lower(f.ext) = ".pdf"}

\* A policy that removes the pdf files of every group.
ToRemoveAll(v, t) == {f \in t : f \in GroupPdf(v, t, get_base_name(f))}

\* lines 189-192: the pdf files of the groups that have both kinds.
ToRemove(v, t) ==
    {f \in t : /\ GroupDoc(v, t, get_base_name(f)) # {}
               /\ f \in GroupPdf(v, t, get_base_name(f))}

\* lines 185-186: the tree is walked and grouped.
StartDedup ==
    /\ dpc = "start"
    /\ work' = ToRemove(version, tree)
    /\ dpc' = "loop"
    /\ UNCHANGED <<version, tree, tree0, duplicates_found, space_saved, deleted,
                   undeleted, dlog>>
    /\ UNCHANGED notDedupVars

\* The bytes counted for a file whose os.remove raises: downloader.py adds the
\* size at line 196, before the removal at line 199; utils.py adds it after.
CountedOnFailure(v, f) == IF v = "downloader" THEN Size(f) ELSE 0

\* lines 192-204: one pdf of a group: getsize, remove, count; an exception of
\* either call is logged and the loop goes on.
RemovePdf(f) ==
    /\ dpc = "loop"
    /\ deleted \subseteq dlog
    /\ f \in work
    /\ work' = work \ {f}
    /\ \E outcome \in {"removed", "getsize raises", "remove raises"} :
          CASE outcome = "removed" ->
                  /\ tree' = tree \ {f}
                  /\ deleted' = deleted \cup {f}
                  /\ duplicates_found' = duplicates_found + 1
                  /\ space_saved' = space_saved + Size(f)
                  /\ UNCHANGED undeleted
            [] outcome = "getsize raises" ->
                  /\ undeleted' = undeleted \cup {f}
                  /\ UNCHANGED <<tree, deleted, duplicates_found, space_saved>>
            [] outcome = "remove raises" ->
                  /\ undeleted' = undeleted \cup {f}
                  /\ space_saved' = space_saved + CountedOnFailure(version, f)
                  /\ UNCHANGED <<tree, deleted, duplicates_found>>
    /\ UNCHANGED <<version, tree0, dpc, dlog>>
    /\ UNCHANGED notDedupVars

\* line 201 (utils.py line 358): logger.info names the path of the pdf that
\* os.remove has just removed.
LogRemoved(f) ==
    /\ dpc = "loop"
    /\ f \in deleted \ dlog
    /\ dlog' = dlog \cup {f}
    /\ UNCHANGED <<version, tree, tree0, work, dpc, duplicates_found, space_saved,
                   deleted, undeleted>>
    /\ UNCHANGED notDedupVars

\* line 215: return duplicates_found, space_saved.
DedupReturn ==
    /\ dpc = "loop"
    /\ work = {}
    /\ deleted \subseteq dlog
    /\ dpc' = "returned"
    /\ UNCHANGED <<version, tree, tree0, work, duplicates_found, space_saved,
                   deleted, undeleted, dlog>>
    /\ UNCHANGED notDedupVars

DedupIdle ==
    /\ version = "downloader"
    /\ tree = {}
    /\ tree0 = {}
    /\ dpc = "start"
    /\ work = {}
    /\ duplicates_found = 0
    /\ space_saved = 0
    /\ deleted = {}
    /\ undeleted = {}
    /\ dlog = {}

DedupInit ==
    /\ version \in {"downloader", "utils"}
    /\ tree \in TreesUpTo(MaxFiles)
    /\ tree0 = tree
    /\ dpc = "start"
    /\ work = {}
    /\ duplicates_found = 0
    /\ space_saved = 0
    /\ deleted = {}
    /\ undeleted = {}
    /\ dlog = {}

DedupNext ==
    \/ StartDedup
    \/ \E f \in AllFiles : RemovePdf(f)
    \/ \E f \in AllFiles : LogRemoved(f)
    \/ DedupReturn

(***************************************************************************)
(* utils/common.py: DownloadStats; the merges of process_excel_file and    *)
(* crawler.main                                                            *)
(***************************************************************************)
FileTypes == {".pdf", ".doc", ".docx", ".txt"}

\* The keys of a get_summary() dict other than "total" (lines 153-159).
SummaryKeys == <<"doc", "pdf", "successful", "failed">>

StatKeys == FileTypes \cup {SummaryKeys[i] : i \in 1..Len(SummaryKeys)}

\* The chunk results of a run, and the batch files they come from.
ResultNames == {"A", "B", "C"}

\* An entry of a downloads list is None or a summary: the empty sequence, or the
\* sequence of the one summary.
NoSummary == <<>>

\* DownloadStats.__init__: success_count is a defaultdict(int).
EmptyStats ==
    [success_count |-> [k \in StatKeys |-> 0], total_files |-> 0,
     successful |-> <<>>, failed |-> <<>>]

\* lines 133-136.
add_success(s, file_type) ==
    [s EXCEPT !.success_count[file_type] = @ + 1, !.total_files = @ + 1]

\* lines 138-140.
add_failure(s, url, error) == [s EXCEPT !.failed = Append(@, <<url, error>>)]

\* A file path is its stem and its extension; os.path.splitext(filepath)[1].
splitext(filepath) == filepath[2]

\* An add_download that records a failure in both lists.
add_download_both(s, url, filepath, success, error) ==
    IF success
       THEN add_success([s EXCEPT !.successful = Append(@, <<url, filepath>>)],
                        Lower(splitext(filepath)))
       ELSE [s EXCEPT !.successful = Append(@, <<url, filepath>>),
                      !.failed = Append(@, <<url, error>>)]

\* lines 142-149: a successful download joins the successful list and is counted
\* under its lowered extension; a failed one joins the failed list.
add_download(s, url, filepath, success, error) ==
    IF success
       THEN add_success([s EXCEPT !.successful = Append(@, <<url, filepath>>)],
                        Lower(splitext(filepath)))
       ELSE add_failure(s, url, error)

\* A summary that leaves the .docx count out of doc.
get_summary_doc_only(s) ==
    [doc |-> s.success_count[".doc"], pdf |-> s.success_count[".pdf"],
     total |-> s.total_files, successful |-> s.successful, failed |-> s.failed]

\* lines 151-159.
get_summary(s) ==
    [doc |-> s.success_count[".doc"] + s.success_count[".docx"],
     pdf |-> s.success_count[".pdf"],
     total |-> s.total_files,
     successful |-> s.successful,
     failed |-> s.failed]

RECURSIVE AddKeys(_, _)
AddKeys(s, keys) ==
    IF keys = <<>> THEN s ELSE AddKeys(add_success(s, Head(keys)), Tail(keys))

\* processor.py lines 458-462: for a summary that is not None, add_success is
\* called with every key of the summary except "total".
MergeStat(s, stat) == IF stat = NoSummary THEN s ELSE AddKeys(s, SummaryKeys)

\* processor.py lines 453-462: the download_stats list of one chunk.
RECURSIVE MergeChunk(_, _)
MergeChunk(s, download_stats) ==
    IF download_stats = <<>> THEN s
    ELSE MergeChunk(MergeStat(s, Head(download_stats)), Tail(download_stats))

\* A merge that assigns the file total instead of adding it.
MergeFileAssign(total, s) ==
    [total EXCEPT !.success_count[".doc"] = @ + s.success_count[".doc"],
                  !.success_count[".pdf"] = @ + s.success_count[".pdf"],
                  !.total_files = s.total_files]

\* crawler.py lines 131-133: the stats of one batch file join the run's totals.
MergeFile(total, s) ==
    [total EXCEPT !.success_count[".doc"] = @ + s.success_count[".doc"],
                  !.success_count[".pdf"] = @ + s.success_count[".pdf"],
                  !.total_files = @ + s.total_files]

\* The downloads recorded so far in the run: those of the closed results and
\* those of the result being built.
RECURSIVE Recorded(_)
Recorded(names) ==
    IF names = {} THEN Len(calls)
    ELSE LET r == CHOOSE x \in names : TRUE
             entry == chunkResult[r][1]
         IN (IF entry = NoSummary THEN 0
             ELSE Len(entry[1].successful) + Len(entry[1].failed))
            + Recorded(names \ {r})

\* downloader.py lines 139-144: one download of the url being processed is
\* recorded in the url's DownloadStats.
AddDownload(ext, success) ==
    /\ building \in ResultNames
    /\ Recorded(DOMAIN chunkResult) < MaxCalls
    /\ st' = add_download(st, "url", <<"file", ext>>, success, "error")
    /\ calls' = Append(calls, <<ext, success>>)
    /\ UNCHANGED <<building, chunkResult, merged, stats, total_stats>>
    /\ UNCHANGED notStatsVars

\* processor.py lines 391-398: the url's entry of the downloads list: the
\* summary when there were download tasks, None when there were none.
CloseResult ==
    /\ building \in ResultNames
    /\ chunkResult' =
          [r \in DOMAIN chunkResult \cup {building} |->
              IF r = building
                 THEN <<IF calls = <<>> THEN NoSummary ELSE <<get_summary(st)>>>>
                 ELSE chunkResult[r]]
    /\ \E next \in (ResultNames \ DOMAIN chunkResult') \cup {"none"} :
          /\ next # "none" \/ DOMAIN chunkResult' = ResultNames
          /\ building' = next
    /\ st' = EmptyStats
    /\ calls' = <<>>
    /\ UNCHANGED <<merged, stats, total_stats>>
    /\ UNCHANGED notStatsVars

\* processor.py lines 452-462 and crawler.py lines 126-133: the next result is
\* merged: as a chunk into the stats of its file, and, as a file of that one
\* chunk, into the totals of the run.
MergeResult(r) ==
    /\ building = "none"
    /\ r \in ResultNames \ merged
    /\ merged' = merged \cup {r}
    /\ stats' = MergeChunk(stats, chunkResult[r])
    /\ total_stats' = MergeFile(total_stats, MergeChunk(EmptyStats, chunkResult[r]))
    /\ UNCHANGED <<building, st, calls, chunkResult>>
    /\ UNCHANGED notStatsVars

StatsIdle ==
    /\ building = "none"
    /\ st = EmptyStats
    /\ calls = <<>>
    /\ chunkResult = [r \in ResultNames |-> <<>>]
    /\ merged = ResultNames
    /\ stats = EmptyStats
    /\ total_stats = EmptyStats

StatsInit ==
    /\ building = "A"
    /\ st = EmptyStats
    /\ calls = <<>>
    /\ chunkResult = [r \in {} |-> <<>>]
    /\ merged = {}
    /\ stats = EmptyStats
    /\ total_stats = EmptyStats

StatsNext ==
    \/ \E ext \in FileTypes, success \in BOOLEAN : AddDownload(ext, success)
    \/ CloseResult
    \/ \E r \in ResultNames : MergeResult(r)

(***************************************************************************)
(* crawl/verifier.py: safe_split_fields                                    *)
(***************************************************************************)
\* The characters of a cell: a letter, a blank and the delimiter.
Chars == {"a", " ", ";"}

\* A missing cell (None / NaN): what pd.isna answers True for.
NA == <<"NaN">>

RECURSIVE StringsUpTo(_)
StringsUpTo(n) ==
    IF n = 0 THEN {<<>>}
    ELSE LET shorter == StringsUpTo(n - 1)
         IN shorter \cup {Append(s, c) : s \in {t \in shorter : Len(t) = n - 1}, c \in Chars}

Values == StringsUpTo(MaxValueLen) \cup {NA}

\* The field 'unknown'.
Unknown == <<"u", "n", "k", "n", "o", "w", "n">>

\* str.split(';'): the pieces between the delimiters, empty ones included.
RECURSIVE split(_)
split(s) ==
    IF \A i \in 1..Len(s) : s[i] # ";" THEN <<s>>
    ELSE LET k == CHOOSE i \in 1..Len(s) :
                      /\ s[i] = ";"
                      /\ \A j \in 1..(i - 1) : s[j] # ";"
         IN <<SubSeq(s, 1, k - 1)>> \o split(SubSeq(s, k + 1, Len(s)))

\* str.strip(): the blanks at both ends are dropped.
RECURSIVE strip(_)
strip(s) ==
    IF s = <<>> THEN s
    ELSE IF Head(s) = " " THEN strip(Tail(s))
    ELSE IF s[Len(s)] = " " THEN strip(SubSeq(s, 1, Len(s) - 1))
    ELSE s

\* line 18: "if field.strip()".
NonEmpty(field) == strip(field) # <<>>

\* lines 14-21.
safe_split_fields(value) ==
    IF value = NA THEN <<Unknown>>
    ELSE LET pieces == SelectSeq(split(value), NonEmpty)
         IN [i \in 1..Len(pieces) |-> strip(pieces[i])]

\* safe_split_fields is called with the cell.
CallSplit ==
    /\ spc = "split"
    /\ fields' = safe_split_fields(cell)
    /\ spc' = "returned"
    /\ UNCHANGED cell
    /\ UNCHANGED notSplitVars

SplitIdle ==
    /\ cell = <<>>
    /\ fields = <<>>
    /\ spc = "idle"

SplitInit ==
    /\ cell \in Values
    /\ fields = <<>>
    /\ spc = "split"

SplitNext ==
    \/ CallSplit

(***************************************************************************)
(* utils/utils.py: DownloadStatus; utils/common.py: the lists of           *)
(* DownloadStats                                                           *)
(***************************************************************************)
\* utils.py lines 102-104: DownloadStatus.__init__.
EmptyStatus == [successful |-> <<>>, failed |-> <<>>]

\* utils.py lines 106-107: DownloadStatus.add_success.
status_add_success(s, url, filepath) ==
    [s EXCEPT !.successful = Append(@, <<url, filepath>>)]

\* utils.py lines 109-110: DownloadStatus.add_failure.
status_add_failure(s, url, error) == [s EXCEPT !.failed = Append(@, <<url, error>>)]

\* utils.py lines 112-116: DownloadStatus.get_summary.
status_get_summary(s) == [successful |-> s.successful, failed |-> s.failed]

\* The file types of the recorded downloads.
RecordedTypes == {".pdf", ".docx"}

\* An attempt is recorded in a DownloadStatus.
RecordStatus(url, success) ==
    /\ Len(recordings) < MaxRecordings
    /\ status' = IF success THEN status_add_success(status, url, <<"file", ".pdf">>)
                            ELSE status_add_failure(status, url, "error")
    /\ recordings' = Append(recordings, <<"status", url, success>>)
    /\ UNCHANGED <<dstats, direct>>
    /\ UNCHANGED notStatusVars

\* downloader.py lines 139-144: an attempt is recorded in a DownloadStats through
\* add_download.
RecordStats(url, ext, success) ==
    /\ Len(recordings) < MaxRecordings
    /\ dstats' = add_download(dstats, url, <<"file", ext>>, success, "error")
    /\ recordings' = Append(recordings, <<"stats", url, success>>)
    /\ UNCHANGED <<status, direct>>
    /\ UNCHANGED notStatusVars

\* processor.py line 462: add_success is called on the DownloadStats itself, with
\* a file type and no url.
CountFileType(file_type) ==
    /\ dstats.total_files < MaxRecordings
    /\ dstats' = add_success(dstats, file_type)
    /\ direct' = TRUE
    /\ UNCHANGED <<status, recordings>>
    /\ UNCHANGED notStatusVars

StatusIdle ==
    /\ status = EmptyStatus
    /\ dstats = EmptyStats
    /\ recordings = <<>>
    /\ direct = TRUE

StatusInit ==
    /\ status = EmptyStatus
    /\ dstats = EmptyStats
    /\ recordings = <<>>
    /\ direct = FALSE

StatusNext ==
    \/ \E url \in URLs, success \in BOOLEAN : RecordStatus(url, success)
    \/ \E url \in URLs, ext \in RecordedTypes, success \in BOOLEAN : RecordStats(url, ext, success)
    \/ \E file_type \in RecordedTypes : CountFileType(file_type)

(***************************************************************************)
(* The sub-batches of one task list: utils/utils.py download_files_parallel*)
(* (thread pool), crawl/downloader.py download_files_parallel (async) and  *)
(* crawl/processor.py process_batch_file (one row at a time)               *)
(***************************************************************************)
Variants == {"threads", "async", "rows"}

\* tasks[i : i + batch_size] and BatchProcessor.process_batches: task t is in
\* sub-batch (t - 1) div batch_size, counted from 0.
SubBatch(t) == (t - 1) \div batch_size

LastSubBatch == SubBatch(NumTasks)

InFlight == {t \in Tasks : tstate[t] = "running"}

\* How many tasks of a sub-batch run at once: max_workers threads of the
\* executor, the permits of FastDownloader's semaphore, one row at a time in
\* process_batch_file.
Limit == IF variant = "rows" THEN 1 ELSE max_workers

\* A start that takes no notice of the workers or permits in use.
TaskStartUnbounded(t) ==
    /\ ppc = "batch"
    /\ tstate[t] = "pending"
    /\ SubBatch(t) = cur
    /\ tstate' = [tstate EXCEPT ![t] = "running"]
    /\ UNCHANGED <<variant, batch_size, max_workers, cur, ppc, pauses>>
    /\ UNCHANGED notPaceVars

\* utils.py line 163: a free thread of the executor takes the next task of the
\* batch; downloader.py line 405: a task of the gathered batch gets a permit of
\* the semaphore; processor.py line 229: the next row of the chunk.
TaskStart(t) ==
    /\ ppc = "batch"
    /\ tstate[t] = "pending"
    /\ SubBatch(t) = cur
    /\ Cardinality(InFlight) < Limit
    /\ tstate' = [tstate EXCEPT ![t] = "running"]
    /\ UNCHANGED <<variant, batch_size, max_workers, cur, ppc, pauses>>
    /\ UNCHANGED notPaceVars

\* The task returns its result.
TaskFinish(t) ==
    /\ ppc = "batch"
    /\ tstate[t] = "running"
    /\ tstate' = [tstate EXCEPT ![t] = "done"]
    /\ UNCHANGED <<variant, batch_size, max_workers, cur, ppc, pauses>>
    /\ UNCHANGED notPaceVars

\* Where the loop goes after a sub-batch: process_batch_file sleeps at the end
\* of every chunk (processor.py line 255); utils.py sleeps once, after the loop
\* over the batches (line 175); downloader.py goes straight on (lines 122-127).
AfterBatch(k) ==
    IF variant = "rows" THEN "sleep"
    ELSE IF k < LastSubBatch THEN "batch"
    ELSE IF variant = "threads" THEN "sleep"
    ELSE "end"

\* utils.py line 163, list(executor.map(...)) and the exit of the executor;
\* downloader.py line 124, await downloader.process_batch(batch): every task of
\* the sub-batch has returned.
BatchJoin ==
    /\ ppc = "batch"
    /\ \A t \in Tasks : SubBatch(t) = cur => tstate[t] = "done"
    /\ ppc' = AfterBatch(cur)
    /\ cur' = IF ppc' = "batch" THEN cur + 1 ELSE cur
    /\ UNCHANGED <<variant, batch_size, max_workers, tstate, pauses>>
    /\ UNCHANGED notPaceVars

\* time.sleep(0.5) returns.
Pause ==
    /\ ppc = "sleep"
    /\ pauses' = pauses \cup {cur}
    /\ ppc' = IF cur < LastSubBatch THEN "batch" ELSE "end"
    /\ cur' = IF cur < LastSubBatch THEN cur + 1 ELSE cur
    /\ UNCHANGED <<variant, batch_size, max_workers, tstate>>
    /\ UNCHANGED notPaceVars

PaceIdle ==
    /\ variant = "rows"
    /\ batch_size = 1
    /\ max_workers = 1
    /\ tstate = [t \in Tasks |-> "done"]
    /\ cur = 0
    /\ ppc = "end"
    /\ pauses = {}

PaceInit ==
    /\ variant \in Variants
    /\ batch_size \in 1..PoolBatchSize
    /\ max_workers \in 1..ConcurrentLimit
    /\ tstate = [t \in Tasks |-> "pending"]
    /\ cur = 0
    /\ ppc = "batch"
    /\ pauses = {}

PaceNext ==
    \/ \E t \in Tasks : TaskStart(t)
    \/ \E t \in Tasks : TaskFinish(t)
    \/ BatchJoin
    \/ Pause

(***************************************************************************)
(* crawl/batch_config.py: BatchConfig; crawl/processor.py: BatchSettings:  *)
(* the chunk_size setting                                                  *)
(***************************************************************************)
\* batch_config.py line 21, processor.py line 117.
DefaultChunkSize == 50

\* batch_config.py line 174, processor.py line 171.
MinChunkSize == 10
MaxChunkSize == 500

\* What the user may type at a prompt: text that int() parses to a number, text
\* it raises ValueError on, or nothing.
Typed == {<<"int", n>> : n \in {0 - 3, 0, 9, 10, 11, 200, 500, 501, 100000}}
            \cup {<<"text", 0>>, <<"empty", 0>>}

Larger(a, b) == IF a > b THEN a ELSE b

\* A range check that lets every number through.
clamp_nothing(new_value) == new_value

\* batch_config.py line 174: max(10, min(500, new_value)).
clamp(new_value) == Larger(MinChunkSize, Min(MaxChunkSize, new_value))

\* processor.py lines 168-176, choice "4": int(input(...)) is taken when it is
\* within 10..500; otherwise, and on ValueError, the setting stays.
Customize(typed) ==
    /\ batchSettings' =
          IF typed[1] = "int" /\ MinChunkSize <= typed[2] /\ typed[2] <= MaxChunkSize
             THEN typed[2] ELSE batchSettings
    /\ UNCHANGED <<settings, config_file>>
    /\ UNCHANGED notConfigVars

\* processor.py lines 182-183, choice "7": self.__init__().
CustomizeReset ==
    /\ batchSettings' = DefaultChunkSize
    /\ UNCHANGED <<settings, config_file>>
    /\ UNCHANGED notConfigVars

\* batch_config.py lines 152-179 for the key chunk_size: an empty answer keeps
\* the value, a number is clamped and stored, a ValueError asks again.
ConfigureSection(typed) ==
    /\ settings' = IF typed[1] = "int" THEN clamp(typed[2]) ELSE settings
    /\ UNCHANGED <<batchSettings, config_file>>
    /\ UNCHANGED notConfigVars

\* batch_config.py lines 139-141: load_defaults.
ResetDefaults ==
    /\ settings' = DefaultChunkSize
    /\ UNCHANGED <<batchSettings, config_file>>
    /\ UNCHANGED notConfigVars

\* batch_config.py lines 76-91: the settings are written to the config file.
SaveConfig ==
    /\ config_file' = settings
    /\ UNCHANGED <<settings, batchSettings>>
    /\ UNCHANGED notConfigVars

\* batch_config.py lines 54-66: the chunk_size of the saved file replaces the
\* one in the settings, as it is.
load(saved) == saved

\* batch_config.py lines 9-15: a new BatchConfig: the defaults, then the saved
\* file when there is one, else the defaults are saved.
NewBatchConfig ==
    /\ IF config_file # 0
          THEN /\ settings' = load(config_file)
               /\ UNCHANGED config_file
          ELSE /\ settings' = DefaultChunkSize
               /\ config_file' = DefaultChunkSize
    /\ UNCHANGED batchSettings
    /\ UNCHANGED notConfigVars

ConfigIdle ==
    /\ settings = DefaultChunkSize
    /\ batchSettings = DefaultChunkSize
    /\ config_file = DefaultChunkSize

\* No config file yet, the defaults in both objects.
ConfigInit ==
    /\ settings = DefaultChunkSize
    /\ batchSettings = DefaultChunkSize
    /\ config_file = 0

ConfigNext ==
    \/ \E typed \in Typed : Customize(typed)
    \/ CustomizeReset
    \/ \E typed \in Typed : ConfigureSection(typed)
    \/ ResetDefaults
    \/ SaveConfig
    \/ NewBatchConfig

(***************************************************************************)
(* crawl/downloader.py, utils/utils.py: get_base_name on any file name     *)
(***************************************************************************)
\* The characters of a stem: a letter, the underscore and a digit.
StemChars == {"a", "_", "7"}

RECURSIVE StemsUpTo(_)
StemsUpTo(n) ==
    IF n = 0 THEN {<<>>}
    ELSE LET shorter == StemsUpTo(n - 1)
         IN shorter \cup {Append(s, c) : s \in {t \in shorter : Len(t) = n - 1},
                                         c \in StemChars}

\* line 172: base_name = get_base_name(filename), for a file the walk found.
GetBaseName ==
    /\ gpc = "found"
    /\ base_name' = get_base_name(filename)
    /\ gpc' = "keyed"
    /\ UNCHANGED filename
    /\ UNCHANGED notBaseVars

BaseIdle ==
    /\ filename = [stem |-> <<>>, ext |-> ".pdf"]
    /\ base_name = <<>>
    /\ gpc = "idle"

BaseInit ==
    /\ filename \in [stem : StemsUpTo(MaxStemLen) \ {<<>>}, ext : {".pdf", ".docx"}]
    /\ base_name = <<>>
    /\ gpc = "found"

BaseNext == GetBaseName

(***************************************************************************)
(* crawl/batch_config.py: BatchConfig.load and _restore_from_backup        *)
(***************************************************************************)
NoFile == [exists |-> FALSE, valid |-> FALSE, chunk_size |-> 0]
InvalidJson == [exists |-> TRUE, valid |-> FALSE, chunk_size |-> 0]

\* A config file that parses, with the chunk_size it holds.
ValidJson(n) == [exists |-> TRUE, valid |-> TRUE, chunk_size |-> n]

ConfigFiles == {NoFile, InvalidJson, ValidJson(MinChunkSize), ValidJson(MaxChunkSize)}

\* lines 43-44: load is entered; without a config file it returns False.
LoadEnter ==
    /\ lpc = "load"
    /\ IF cfile.exists
          THEN /\ lpc' = "backup"
               /\ UNCHANGED lresult
          ELSE /\ lpc' = "unwind"
               /\ lresult' = FALSE
    /\ UNCHANGED <<cfile, cfile0, bak, depth, restores, loaded>>
    /\ UNCHANGED notRestoreVars

\* lines 46-52: the config file is copied over <config_file>.bak before it is
\* read; a failure of the copy is logged and the load goes on.
LoadBackup ==
    /\ lpc = "backup"
    /\ \E copied \in BOOLEAN : bak' = IF copied THEN cfile ELSE bak
    /\ lpc' = "parse"
    /\ UNCHANGED <<cfile, cfile0, depth, restores, loaded, lresult>>
    /\ UNCHANGED notRestoreVars

\* lines 54-71: json.load; the saved values are merged and load returns True,
\* or JSONDecodeError is caught and _restore_from_backup is called.
LoadParse ==
    /\ lpc = "parse"
    /\ IF cfile.valid
          THEN /\ loaded' = load(cfile.chunk_size)
               /\ lresult' = TRUE
               /\ lpc' = "unwind"
          ELSE /\ lpc' = "restore"
               /\ UNCHANGED <<loaded, lresult>>
    /\ UNCHANGED <<cfile, cfile0, bak, depth, restores>>
    /\ UNCHANGED notRestoreVars

\* lines 102-114: when the backup exists it is copied over the config file and
\* load is called again; an exception (of the copy, or the RecursionError of a
\* call beyond the interpreter's recursion limit) is logged and False returned.
Restore ==
    /\ lpc = "restore"
    /\ IF bak.exists
          THEN \E copied \in BOOLEAN :
                  IF ~copied
                     THEN /\ lresult' = FALSE
                          /\ lpc' = "unwind"
                          /\ UNCHANGED <<cfile, restores, depth>>
                     ELSE /\ cfile' = bak
                          /\ restores' = restores + 1
                          /\ IF depth < RecursionLimit
                                THEN /\ depth' = depth + 1
                                     /\ lpc' = "load"
                                     /\ UNCHANGED lresult
                                ELSE /\ lresult' = FALSE
                                     /\ lpc' = "unwind"
                                     /\ UNCHANGED depth
          ELSE /\ lresult' = FALSE
               /\ lpc' = "unwind"
               /\ UNCHANGED <<cfile, restores, depth>>
    /\ UNCHANGED <<cfile0, bak, loaded>>
    /\ UNCHANGED notRestoreVars

\* line 111, then lines 71 and 74: the inner load returns to the
\* _restore_from_backup that called it, which returns to the load above; that
\* load drops the value and returns False.
Unwind ==
    /\ lpc = "unwind"
    /\ IF depth > 0
          THEN /\ depth' = depth - 1
               /\ lresult' = FALSE
               /\ UNCHANGED lpc
          ELSE /\ lpc' = "returned"
               /\ UNCHANGED <<depth, lresult>>
    /\ UNCHANGED <<cfile, cfile0, bak, restores, loaded>>
    /\ UNCHANGED notRestoreVars

RestoreIdle ==
    /\ cfile = NoFile
    /\ cfile0 = NoFile
    /\ bak = NoFile
    /\ lpc = "returned"
    /\ depth = 0
    /\ restores = 0
    /\ loaded = DefaultChunkSize
    /\ lresult = FALSE

\* lines 9-14: load_defaults has run and load is called.
RestoreInit ==
    /\ cfile \in ConfigFiles
    /\ cfile0 = cfile
    /\ bak \in ConfigFiles
    /\ lpc = "load"
    /\ depth = 0
    /\ restores = 0
    /\ loaded = DefaultChunkSize
    /\ lresult = FALSE

RestoreNext ==
    \/ LoadEnter
    \/ LoadBackup
    \/ LoadParse
    \/ Restore
    \/ Unwind

LockIdle ==
    /\ posix = TRUE
    /\ pc = [w \in Workers |-> "idle"]
    /\ retry = [w \in Workers |-> FALSE]
    /\ fh = [w \in Workers |-> 0]
    /\ lockPath = 0
    /\ flockHolder = [i \in Inodes |-> 0]
    /\ dest = "absent"
    /\ destOpen = {}
    /\ result = [w \in Workers |-> NoResult]
    /\ initExists = FALSE
    /\ acquired = {}
    /\ checked = {}
    /\ fetched = {}
    /\ wrote = {}

LockInit ==
    /\ posix \in BOOLEAN
    /\ pc = [w \in Workers |-> "idle"]
    /\ retry = [w \in Workers |-> FALSE]
    /\ fh = [w \in Workers |-> 0]
    /\ lockPath = 0
    /\ flockHolder = [i \in Inodes |-> 0]
    /\ dest \in {"absent", "complete"}
    /\ destOpen = {}
    /\ result = [w \in Workers |-> NoResult]
    /\ initExists = (dest # "absent")
    /\ acquired = {}
    /\ checked = {}
    /\ fetched = {}
    /\ wrote = {}

LockNext ==
    \E w \in Workers :
        \/ download_file(w)
        \/ LockOpen(w)
        \/ LockAcquire(w)
        \/ LockTimeout(w)
        \/ CheckExists(w)
        \/ do_download(w)
        \/ WriteDone(w)
        \/ WriteFail(w)
        \/ Finally(w)

\* The steps of one call.
CallStep(w) ==
    \/ download_file(w)
    \/ LockOpen(w)
    \/ LockAcquire(w)
    \/ LockTimeout(w)
    \/ CheckExists(w)
    \/ do_download(w)
    \/ WriteDone(w)
    \/ WriteFail(w)
    \/ Finally(w)

\* The calls of a run whose server may never answer.
NetNext ==
    \E w \in Workers :
        \/ CallStep(w)
        \/ GetBlocks(w)

\* main.py lines 486-504 (crawler.py lines 14-25): the interrupt handler walks
\* the download folder, unlinks what ends in ".lock", swallows the OSError of an
\* unlink that fails, and leaves with os._exit(0): no finally clause runs, the
\* handles of the process are closed by the exit, the destination stays as it is.
Interrupt ==
    /\ \A w \in Workers : pc[w] # "exited"
    /\ lockPath' = UnlinkLock
    /\ pc' = [w \in Workers |-> "exited"]
    /\ fh' = [w \in Workers |-> 0]
    /\ flockHolder' = [i \in Inodes |-> 0]
    /\ destOpen' = {}
    /\ UNCHANGED <<posix, retry, dest, result, initExists, acquired, checked,
                   fetched, wrote>>
    /\ UNCHANGED notLockVars

InterruptNext ==
    \/ LockNext
    \/ Interrupt

InitLock == LockInit /\ PoolIdle /\ LedgerIdle /\ BatchIdle /\ ChunkIdle /\ CrawlIdle /\ DedupIdle /\ StatsIdle /\ SplitIdle /\ StatusIdle /\ PaceIdle /\ ConfigIdle /\ BaseIdle /\ RestoreIdle
SpecLock == InitLock /\ [][LockNext]_vars

\* Every call that can take a step takes one sooner or later: each call runs in
\* a live process of the pool.
SpecNet ==
    InitLock /\ [][NetNext]_vars /\ \A w \in Workers : WF_vars(CallStep(w) \/ GetBlocks(w))

SpecInterrupt == InitLock /\ [][InterruptNext]_vars

InitPool == PoolInit /\ LockIdle /\ LedgerIdle /\ BatchIdle /\ ChunkIdle /\ CrawlIdle /\ DedupIdle /\ StatsIdle /\ SplitIdle /\ StatusIdle /\ PaceIdle /\ ConfigIdle /\ BaseIdle /\ RestoreIdle
SpecPool == InitPool /\ [][PoolNext]_vars

InitLedger == LedgerInit /\ LockIdle /\ PoolIdle /\ BatchIdle /\ ChunkIdle /\ CrawlIdle /\ DedupIdle /\ StatsIdle /\ SplitIdle /\ StatusIdle /\ PaceIdle /\ ConfigIdle /\ BaseIdle /\ RestoreIdle
SpecLedger == InitLedger /\ [][LedgerNext]_vars

InitBatch == BatchInit /\ LedgerIdle /\ LockIdle /\ PoolIdle /\ ChunkIdle /\ CrawlIdle /\ DedupIdle /\ StatsIdle /\ SplitIdle /\ StatusIdle /\ PaceIdle /\ ConfigIdle /\ BaseIdle /\ RestoreIdle
SpecBatch == InitBatch /\ [][BatchNext]_vars

InitChunk == ChunkInit /\ LockIdle /\ PoolIdle /\ LedgerIdle /\ BatchIdle /\ CrawlIdle /\ DedupIdle /\ StatsIdle /\ SplitIdle /\ StatusIdle /\ PaceIdle /\ ConfigIdle /\ BaseIdle /\ RestoreIdle
SpecChunk == InitChunk /\ [][ChunkNext]_vars

InitCrawl == CrawlInit /\ LockIdle /\ PoolIdle /\ LedgerIdle /\ BatchIdle /\ ChunkIdle /\ DedupIdle /\ StatsIdle /\ SplitIdle /\ StatusIdle /\ PaceIdle /\ ConfigIdle /\ BaseIdle /\ RestoreIdle
SpecCrawl == InitCrawl /\ [][CrawlNext]_vars

InitDedup == DedupInit /\ BatchIdle /\ ChunkIdle /\ CrawlIdle /\ LedgerIdle /\ LockIdle /\ PoolIdle /\ StatsIdle /\ SplitIdle /\ StatusIdle /\ PaceIdle /\ ConfigIdle /\ BaseIdle /\ RestoreIdle
SpecDedup == InitDedup /\ [][DedupNext]_vars

InitStats == StatsInit /\ BatchIdle /\ ChunkIdle /\ CrawlIdle /\ DedupIdle /\ LedgerIdle /\ LockIdle /\ PoolIdle /\ SplitIdle /\ StatusIdle /\ PaceIdle /\ ConfigIdle /\ BaseIdle /\ RestoreIdle
SpecStats == InitStats /\ [][StatsNext]_vars

InitSplit == SplitInit /\ BatchIdle /\ ChunkIdle /\ CrawlIdle /\ DedupIdle /\ LedgerIdle /\ LockIdle /\ PoolIdle /\ StatsIdle /\ StatusIdle /\ PaceIdle /\ ConfigIdle /\ BaseIdle /\ RestoreIdle
SpecSplit == InitSplit /\ [][SplitNext]_vars

InitStatus == StatusInit /\ BatchIdle /\ ChunkIdle /\ CrawlIdle /\ DedupIdle /\ LedgerIdle /\ LockIdle /\ PoolIdle /\ SplitIdle /\ StatsIdle /\ PaceIdle /\ ConfigIdle /\ BaseIdle /\ RestoreIdle
SpecStatus == InitStatus /\ [][StatusNext]_vars

InitPace == PaceInit /\ BatchIdle /\ ChunkIdle /\ CrawlIdle /\ DedupIdle /\ LedgerIdle /\ LockIdle /\ PoolIdle /\ SplitIdle /\ StatsIdle /\ StatusIdle /\ ConfigIdle /\ BaseIdle /\ RestoreIdle
SpecPace == InitPace /\ [][PaceNext]_vars

InitConfig == ConfigInit /\ BatchIdle /\ ChunkIdle /\ CrawlIdle /\ DedupIdle /\ LedgerIdle /\ LockIdle /\ PaceIdle /\ PoolIdle /\ SplitIdle /\ StatsIdle /\ StatusIdle /\ BaseIdle /\ RestoreIdle
SpecConfig == InitConfig /\ [][ConfigNext]_vars

InitBase == BaseInit /\ BatchIdle /\ ChunkIdle /\ ConfigIdle /\ CrawlIdle /\ DedupIdle /\ LedgerIdle /\ LockIdle /\ PaceIdle /\ PoolIdle /\ SplitIdle /\ StatsIdle /\ StatusIdle /\ RestoreIdle
SpecBase == InitBase /\ [][BaseNext]_vars

InitRestore == RestoreInit /\ BaseIdle /\ BatchIdle /\ ChunkIdle /\ ConfigIdle /\ CrawlIdle /\ DedupIdle /\ LedgerIdle /\ LockIdle /\ PaceIdle /\ PoolIdle /\ SplitIdle /\ StatsIdle /\ StatusIdle
SpecRestore == InitRestore /\ [][RestoreNext]_vars

(***************************************************************************)
(* Claims about download_file                                              *)
(***************************************************************************)
NoRetryCall == \A w \in Workers : ~retry[w]
AllReturned == \A w \in Workers : pc[w] = "done"

\* C1: among non-retry download_file calls on one destination path, at most one
\* call holds the lock of the path at any instant, whatever the interleaving of
\* lock timeouts and lock-file cleanups.
C1_LockMutualExclusion ==
    NoRetryCall => Cardinality({w \in Workers : HoldsLock(w)}) <= 1

\* C2: when the destination does not exist initially and non-retry calls race on
\* it, exactly one call opens and writes the destination; every other call
\* short-circuits on the existence check or fails, and does not write.
C2_ExactlyOneWriter ==
    (AllReturned /\ NoRetryCall /\ ~initExists
       /\ \A w \in Workers : result[w][2] \in {None, LockedError})
    => /\ Cardinality(wrote) = 1
       /\ \A w \in Workers \ wrote :
             \/ result[w] = <<TRUE, None>> /\ w \in checked /\ w \notin fetched
             \/ result[w] = <<FALSE, LockedError>>

(***************************************************************************)
(* Claims about the process-pool path                                      *)
(***************************************************************************)
\* C3: in the process-pool path two tasks that resolve to the same destination
\* path never write it concurrently and never write it twice.
C3_PoolSingleWrite ==
    \A p \in Paths : Cardinality(pOpen[p]) <= 1 /\ Len(awrites[p]) <= 1

(***************************************************************************)
(* Claims about the ledger                                                 *)
(***************************************************************************)
\* C4: whenever the process is killed during save_progress, the ledger file the
\* next load reads is exactly the previously committed ledger or exactly the
\* new one: the file on disk always equals the last installed complete ledger.
C4_LedgerOldOrNew == files[progress_file] = committed

C4_Witness ==
    /\ tpc = "down"
    /\ crashedAt = "save_rows"
    /\ files[temp_file].exists
    /\ files[progress_file].exists
    /\ ~ParseRaises(files[progress_file])
    /\ files[progress_file].rows # <<>>
    /\ files[temp_file].rows # <<>>
    /\ files[temp_file].rows # files[progress_file].rows

\* C5: no URL is at once in the processed set and in the failed list.
C5_SingleStatus == \A url \in URLs : ~(InProcessed(url) /\ InFailed(url))

PersistedFailure(url) ==
    \E i \in 1..Len(files[progress_file].rows) :
        /\ files[progress_file].rows[i].url = url
        /\ files[progress_file].rows[i].status # "success"

PersistedSuccess(url) ==
    \E i \in 1..Len(files[progress_file].rows) :
        /\ files[progress_file].rows[i].url = url
        /\ files[progress_file].rows[i].status = "success"

\* C6: after mark_success(url) returns, url is in the processed set and no
\* failure entry for it exists, in memory and in the persisted ledger.
C6_MarkSuccessEvicts ==
    \A url \in URLs :
        (tpc = "ready" /\ lastOp = <<"mark_success", url>>)
        => /\ InProcessed(url) /\ ~InFailed(url)
           /\ PersistedSuccess(url) /\ ~PersistedFailure(url)

C7_ResumeSkipsCommitted ==
    (runs >= 2 /\ bpc # "down") => submitted \cap committedBefore = {}

\* The same statement for the runs of process_batch_file alone.
C7_SequentialResume ==
    (runs >= 2 /\ bpc # "down" /\ mode = "sequential")
    => submitted \cap committedBefore = {}

\* C8: after a batch pass of process_batch_file the ledger agrees with the
\* outcomes of the tasks: every submitted url is in exactly one of processed
\* and failed; a url is in processed only if one of its downloads returned
\* success; a url whose downloads all failed has a failure entry that carries
\* the reason the worker returned.
C8_LedgerAgreesWithOutcomes ==
    (bpc = "finished" /\ mode = "sequential" /\ runs = 1)
    => \A url \in submitted :
          /\ InProcessed(url) # InFailed(url)
          /\ InProcessed(url) => <<TRUE, None>> \in outcomes[url]
          /\ (outcomes[url] # {} /\ <<TRUE, None>> \notin outcomes[url])
                => \E i \in 1..Len(progress.failed) :
                      /\ progress.failed[i].url = url
                      /\ <<FALSE, progress.failed[i].error>> \in outcomes[url]

(***************************************************************************)
(* Claims about re-running a batch                                         *)
(***************************************************************************)
\* The download_file half of C10: a non-retry call on an existing destination
\* neither fetches nor writes.
C10_DownloadFileShortCircuits ==
    \A w \in Workers :
        (initExists /\ ~retry[w]) => (w \notin fetched /\ w \notin wrote)

\* C10: when the destination files already exist, no task fetches or writes,
\* on each download path of the worker pool: download_file and
\* FastDownloader.download_file_async.
C10_RerunNoFetchNoWrite ==
    /\ C10_DownloadFileShortCircuits
    /\ \A t \in Tasks :
          pInit[tdest[t]]
          => (t \notin afetched /\ t \notin SeqRange(awrites[tdest[t]]))

(***************************************************************************)
(* Claims about the ordering, release and cleanup of download_file         *)
(***************************************************************************)
\* C11: every write to the destination by a non-retry download_file call comes
\* after that call's existence check, which comes after that call's lock
\* acquisition; the call holds the lock while it fetches and writes.
C11_LockCheckWriteOrder ==
    \A w \in Workers :
        ~retry[w] =>
            /\ w \in checked => w \in acquired
            /\ w \in fetched => w \in checked
            /\ w \in wrote => w \in checked /\ w \in acquired
            /\ pc[w] \in {"check", "fetch", "write"} => HoldsLock(w)
            /\ pc[w] = "check" => w \notin wrote

C11_Witness ==
    \E w \in Workers :
        ~retry[w] /\ pc[w] = "write" /\ w \in wrote /\ w \in checked

\* C12: a download_file call that has left the lock block, on any outcome, holds
\* no flock and no handle on the lock file; when no call is inside the block the
\* lock of every lock file is free for the next call.
C12_ReleasedOnReturn ==
    /\ \A w \in Workers :
          pc[w] \in {"finally", "done"} =>
              /\ fh[w] = 0
              /\ \A i \in Inodes : flockHolder[i] # w
    /\ (\A w \in Workers : pc[w] \in {"idle", "open", "finally", "done"})
          => \A i \in Inodes : flockHolder[i] = 0

C12_Witness ==
    \E w, v \in Workers :
        /\ w # v
        /\ pc[w] = "done" /\ w \in acquired /\ w \in wrote
        /\ result[w] = <<FALSE, "exception">>
        /\ fh[v] = lockPath /\ HoldsLock(v) /\ dest = "partial"
        /\ \E u \in Workers : pc[u] = "done" /\ result[u] = <<TRUE, None>>
                                /\ u \notin fetched /\ u \in checked

\* C13: when every download_file call that was started has returned, whatever
\* the mix of outcomes and of retry-mode calls, no lock file is left on disk.
C13_NoLockFileLeft ==
    (\A w \in Workers : pc[w] \in {"idle", "done"}) => lockPath = 0

C13_Witness ==
    /\ AllReturned
    /\ \E w \in Workers : retry[w]
    /\ \E w \in Workers : result[w] = <<FALSE, LockedError>>
    /\ \E w \in Workers : ~retry[w] /\ w \in wrote /\ result[w] = <<TRUE, None>>

\* C14: a call returns (False, "File locked by another process") exactly when it
\* is a non-retry call that gave up without acquiring the lock; such a call has
\* fetched nothing and written nothing, and a returned call stays returned.
TimedOut(w) == pc[w] \in {"finally", "done"} /\ ~retry[w] /\ w \notin acquired

C14_LockTimeoutReason ==
    \A w \in Workers :
        /\ TimedOut(w) => /\ result[w] = <<FALSE, LockedError>>
                          /\ w \notin fetched /\ w \notin wrote
                          /\ w \notin checked
        /\ result[w][2] = LockedError => TimedOut(w)

C14_Witness ==
    \E w \in Workers :
        /\ pc[w] = "done" /\ result[w] = <<FALSE, LockedError>>
        /\ \E v \in Workers : result[v] = <<FALSE, "HTTP 404">>

(***************************************************************************)
(* Claims about the ledger's persistence and its single status per url     *)
(***************************************************************************)
\* C18: when mark_success, mark_failure or clear_progress has returned, the
\* ledger file on disk loads, in a fresh tracker, to the processed urls and the
\* failure entries (url, error, timestamp) the calling tracker holds in memory.
C18_PersistedEqualsMemory ==
    (tpc = "ready" /\ lastOp[1] \in {"mark_success", "mark_failure", "clear_progress"})
    => /\ ~ParseRaises(files[progress_file])
       /\ load_progress(files[progress_file]) = progress

\* The same for trackers whose failure entries hold no carriage return.
C18_WithoutCarriageReturn ==
    (/\ tpc = "ready"
     /\ lastOp[1] \in {"mark_success", "mark_failure", "clear_progress"}
     /\ \A i \in 1..Len(progress.failed) : progress.failed[i].error # CrError)
    => /\ ~ParseRaises(files[progress_file])
       /\ load_progress(files[progress_file]) = progress

\* C19: the status of a url is that of the last call made on it: after
\* mark_success it is processed and not failed, after mark_failure it is failed
\* and not processed.
C19_LastCallWins ==
    \A url \in URLs :
        tpc = "ready" =>
            /\ lastOp = <<"mark_success", url>> => InProcessed(url) /\ ~InFailed(url)
            /\ lastOp = <<"mark_failure", url>> => InFailed(url) /\ ~InProcessed(url)

C15_ChunkIsolation ==
    /\ \A k \in 1..Len(futures) :
          LET f == futures[k] IN
          /\ Len(f.results) = Len(f.ran) /\ Len(f.downloads) = Len(f.ran)
          /\ f.ran = SubSeq(f.urls, 1, Len(f.ran))
          /\ f.state = "done" =>
                /\ f.ran = f.urls
                /\ Len(f.results) = Len(f.urls)
                /\ Len(f.downloads) = Len(f.urls)
          /\ f.state = "raised" => k \in crashed
    /\ xpc = "finished" =>
          /\ collected = {k \in 1..Len(futures) : futures[k].state = "done"}
          /\ logged = {k \in 1..Len(futures) : futures[k].state = "raised"}
          /\ collected \cup logged = 1..Len(futures)

C15_Witness ==
    /\ xpc = "finished"
    /\ Len(futures) >= 2
    /\ logged # {}
    /\ \E k \in collected :
          /\ k > 1 /\ (k - 1) \in logged
          /\ Len(futures[k].urls) >= 2
          /\ futures[k].downloads[1] = None
          /\ ~futures[k].results[1]
          /\ futures[k].results[2]

\* C16: at every instant at most max_processes processes are executing chunks,
\* however many batch files the run processes.
RunningChunks == {fc \in Files \X FileChunks : chunkPc[fc[1]][fc[2]] = "running"}

C16_ProcessTierBound == Cardinality(RunningChunks) <= max_processes

\* The bound holds within each batch file.
C16_PerFileBound == \A f \in Files : Cardinality(RunningIn(f)) <= max_processes

\* C17: the chunks, joined in order, are the task list; every chunk is non-empty
\* and has at most chunk_size tasks, every chunk but the last exactly chunk_size;
\* every chunk is submitted to the pool exactly once.
RECURSIVE Flatten(_)
Flatten(sqs) == IF sqs = <<>> THEN <<>> ELSE Head(sqs) \o Flatten(Tail(sqs))

WellChunked(cs) ==
    /\ Flatten(cs) = items
    /\ \A k \in 1..Len(cs) :
          /\ Len(cs[k]) >= 1
          /\ Len(cs[k]) <= chunk_size
          /\ k < Len(cs) => Len(cs[k]) = chunk_size

C17_ChunksPartitionTasks ==
    /\ xpc # "start" => WellChunked(yielded)
    /\ xpc # "start" /\ xi >= Len(items) => WellChunked(chunks)
    /\ xpc \in {"collecting", "finished"} =>
          /\ Len(futures) = Len(chunks)
          /\ \A k \in 1..Len(futures) : futures[k].urls = chunks[k]
    /\ \A k \in 1..Len(futures) : futures[k].urls = chunks[k]

C17_Witness ==
    /\ xpc = "finished"
    /\ Len(items) = MaxRows
    /\ chunk_size = MaxChunk
    /\ Len(chunks) >= 2
    /\ Len(chunks[Len(chunks)]) < chunk_size
    /\ yielded = chunks
    /\ Len(futures) = Len(chunks)

(***************************************************************************)
(* Claims about remove_duplicate_documents                                 *)
(***************************************************************************)
BaseKeys == {get_base_name(f) : f \in AllFiles}

\* C21: after a pass in which no deletion failed, a group that had a doc or docx
\* file has no pdf left, a group of pdf files only has them all, and at no time
\* has a doc, docx or other file been deleted.
C21_DedupPolicy ==
    /\ tree \subseteq tree0
    /\ tree0 \ tree = deleted
    /\ \A f \in deleted : Lower(f.ext) = ".pdf"
    /\ (dpc = "returned" /\ undeleted = {}) =>
          \A base \in BaseKeys :
              /\ GroupDoc(version, tree0, base) # {}
                    => GroupPdf(version, tree, base) = {}
              /\ GroupDoc(version, tree0, base) = {}
                    => GroupPdf(version, tree0, base) \subseteq tree

C21_Witness ==
    /\ dpc = "returned"
    /\ undeleted = {}
    /\ \E f \in deleted : f.stem = StemLawId /\ f.dir = "downloads/land/2021"
    /\ \E f \in tree : f.stem = StemLaw /\ f.ext = ".docx" /\ f.dir = "downloads/tax/2020"
    /\ \E f \in tree : f.stem = StemTax /\ f.ext = ".pdf"

\* C22: the pair returned is the number of files the pass deleted and the sum
\* of the sizes of those files, whether or not some deletions failed.
C22_ReturnedCounts ==
    dpc = "returned" =>
        /\ duplicates_found = Cardinality(deleted)
        /\ space_saved = SumSizes(deleted)

\* The copy in utils/utils.py, which adds the size after the removal, does so.
C22_UtilsCopyCounts ==
    (dpc = "returned" /\ version = "utils") =>
        /\ duplicates_found = Cardinality(deleted)
        /\ space_saved = SumSizes(deleted)

(***************************************************************************)
(* Claims about the statistics                                             *)
(***************************************************************************)
AllMerged == building = "none" /\ DOMAIN chunkResult = ResultNames /\ merged = ResultNames

ResultOrder == <<"A", "B", "C">>

RECURSIVE ChunksInOrder(_, _)
ChunksInOrder(s, order) ==
    IF order = <<>> THEN s
    ELSE ChunksInOrder(MergeChunk(s, chunkResult[Head(order)]), Tail(order))

RECURSIVE FilesInOrder(_, _)
FilesInOrder(total, order) ==
    IF order = <<>> THEN total
    ELSE FilesInOrder(MergeFile(total, MergeChunk(EmptyStats, chunkResult[Head(order)])),
                      Tail(order))

\* C23: whatever the order in which the results of a run were merged, the
\* aggregated statistics of process_excel_file and of crawler.main are those of
\* the merge in the order A, B, C.
C23_MergeOrderIndependent ==
    AllMerged =>
        /\ stats = ChunksInOrder(EmptyStats, ResultOrder)
        /\ total_stats = FilesInOrder(EmptyStats, ResultOrder)

C23_Witness ==
    /\ AllMerged
    /\ chunkResult["A"] = <<NoSummary>>
    /\ chunkResult["B"] # chunkResult["C"]
    /\ chunkResult["B"] # <<NoSummary>> /\ chunkResult["C"] # <<NoSummary>>
    /\ chunkResult["C"][1][1].total = MaxCalls - 1
    /\ stats.total_files > 0
    /\ total_stats.total_files > 0

\* The sum of a field over the summaries of all results.
RECURSIVE SumOfSummaries(_, _)
SumOfSummaries(field, names) ==
    IF names = {} THEN 0
    ELSE LET r == CHOOSE x \in names : TRUE
             entry == chunkResult[r][1]
         IN (IF entry = NoSummary THEN 0 ELSE entry[1][field])
            + SumOfSummaries(field, names \ {r})

\* C24: after all results are merged, the aggregated doc count, pdf count and
\* total are the sums of those of the per-chunk summaries, in process_excel_file
\* and in crawler.main.
C24_MergedEqualsSums ==
    AllMerged =>
        /\ get_summary(stats).doc = SumOfSummaries("doc", ResultNames)
        /\ get_summary(stats).pdf = SumOfSummaries("pdf", ResultNames)
        /\ get_summary(stats).total = SumOfSummaries("total", ResultNames)
        /\ total_stats.success_count[".doc"] = SumOfSummaries("doc", ResultNames)
        /\ total_stats.success_count[".pdf"] = SumOfSummaries("pdf", ResultNames)
        /\ total_stats.total_files = SumOfSummaries("total", ResultNames)

\* The add_success calls made on st: the successful downloads recorded.
SuccessCalls(types) ==
    Cardinality({i \in 1..Len(calls) : calls[i][2] /\ calls[i][1] \in types})

\* C25: get_summary reports pdf as the number of add_success calls with ".pdf",
\* doc as the number with ".doc" or ".docx", total as the number of calls.
C25_SummaryCounts ==
    /\ get_summary(st).pdf = SuccessCalls({".pdf"})
    /\ get_summary(st).doc = SuccessCalls({".doc", ".docx"})
    /\ get_summary(st).total = SuccessCalls(FileTypes)

C25_Witness ==
    /\ Len(calls) = MaxCalls
    /\ calls[1] = <<".docx", TRUE>>
    /\ calls[2][2]
    /\ calls[2][1] # ".docx"
    /\ get_summary(st).total = MaxCalls

(***************************************************************************)
(* Claims about waits, retry mode, interrupts and results of download_file *)
(***************************************************************************)
\* C26: every download_file call that has started returns in the end, also when
\* the server never answers and when the holder of the lock never releases it.
C26_EveryCallReturns ==
    \A w \in Workers : (pc[w] # "idle") ~> (pc[w] = "done")

\* The wait for the lock does end: a call at the lock can always go on.
C26_LockWaitEnds ==
    \A w \in Workers : pc[w] = "lock" => ENABLED (LockAcquire(w) \/ LockTimeout(w))

\* C27: a retry-mode call acquires no lock, and its return leaves the lock file
\* of the path as it found it.
C27_RetryLeavesLockFile ==
    [][\A w \in Workers :
          (retry[w] /\ pc[w] # "done" /\ pc'[w] = "done") => lockPath' = lockPath]_vars

\* A retry-mode call takes no handle and no flock.
C27_RetryAcquiresNothing ==
    \A w \in Workers :
        retry[w] => /\ w \notin acquired /\ w \notin checked /\ fh[w] = 0
                    /\ \A i \in Inodes : flockHolder[i] # w

\* C28: when the interrupt handler has run and the process has exited, no lock
\* file is left under the download folder.
C28_InterruptCleansLocks ==
    (\A w \in Workers : pc[w] = "exited") => lockPath = 0

\* The handler does not touch the destination.
C28_DestinationUntouched == [][Interrupt => dest' = dest]_vars

\* Where an open file can be unlinked the handler leaves no lock file.
C28_PosixCleansLocks ==
    (posix /\ \A w \in Workers : pc[w] = "exited") => lockPath = 0

\* C29: a call that returned (True, None), with the lock or in retry mode, has
\* its destination file on disk; a call that got a 200 and wrote the body through
\* returned (True, None) and created the file.
C29_SuccessMeansFile ==
    \A w \in Workers :
        /\ result[w] = <<TRUE, None>> => dest # "absent"
        /\ w \in wrote => dest # "absent"
        /\ (w \in wrote /\ pc[w] \in {"finally", "done"} /\ result[w][2] # "exception")
              => result[w] = <<TRUE, None>>

C29_Witness ==
    /\ ~initExists
    /\ \E w \in Workers :
          /\ ~retry[w] /\ pc[w] = "done" /\ w \in wrote
          /\ result[w] = <<TRUE, None>>
    /\ \E v \in Workers :
          /\ retry[v] /\ pc[v] = "done" /\ v \in wrote
          /\ result[v] = <<TRUE, None>>
    /\ dest = "complete"

(***************************************************************************)
(* Claims about safe_split_fields                                          *)
(***************************************************************************)
\* C30: safe_split_fields never returns an empty list: a missing cell gives
\* ['unknown'], a string gives its stripped non-empty fields in order, and a
\* string with no non-empty field gives [""].
C30_NeverEmptyList ==
    spc = "returned" =>
        /\ fields # <<>>
        /\ cell = NA => fields = <<Unknown>>
        /\ (cell # NA /\ \A i \in 1..Len(split(cell)) : strip(split(cell)[i]) = <<>>)
              => fields = << <<>> >>

\* What the function does return: the stripped non-empty fields, in order, and
\* ['unknown'] for a missing cell.
C30_StrippedNonEmptyFields ==
    spc = "returned" =>
        /\ cell = NA => fields = <<Unknown>>
        /\ cell # NA =>
              /\ \A i \in 1..Len(fields) :
                    /\ fields[i] # <<>>
                    /\ Head(fields[i]) # " " /\ fields[i][Len(fields[i])] # " "
                    /\ \A j \in 1..Len(fields[i]) : fields[i][j] # ";"
              /\ Len(fields) <= Len(split(cell))
              /\ (fields = <<>>) <=> (\A i \in 1..Len(cell) : cell[i] # "a")

(***************************************************************************)
(* Claims about the lists of recorded downloads                            *)
(***************************************************************************)
\* The urls of the attempts recorded in an object with an outcome, in order.
RecordedUrls(target, success) ==
    LET rs == SelectSeq(recordings, LAMBDA r : r[1] = target /\ r[3] = success)
    IN [i \in 1..Len(rs) |-> rs[i][2]]

UrlsOf(list) == [i \in 1..Len(list) |-> list[i][1]]

\* C31: every recorded attempt is once in the summary, in the list of its
\* outcome: successful holds the recorded successes and failed the recorded
\* failures, in DownloadStatus and in DownloadStats, and a DownloadStats fed only
\* through add_download has total = len(successful).
C31_EachAttemptInOneList ==
    /\ UrlsOf(status_get_summary(status).successful) = RecordedUrls("status", TRUE)
    /\ UrlsOf(status_get_summary(status).failed) = RecordedUrls("status", FALSE)
    /\ UrlsOf(get_summary(dstats).successful) = RecordedUrls("stats", TRUE)
    /\ UrlsOf(get_summary(dstats).failed) = RecordedUrls("stats", FALSE)
    /\ ~direct => get_summary(dstats).total = Len(get_summary(dstats).successful)

C31_Witness ==
    /\ ~direct
    /\ Len(recordings) = MaxRecordings
    /\ Len(get_summary(dstats).successful) = 1
    /\ Len(get_summary(dstats).failed) = 1
    /\ Len(status_get_summary(status).failed) = 1
    /\ get_summary(dstats).total = 1

(***************************************************************************)
(* Claims about what the path lock covers                                  *)
(***************************************************************************)
\* C32: a worker that waits on the network fetch of its task does not hold the
\* lock of the destination path.
C32_NoLockDuringFetch ==
    \A w \in Workers : pc[w] = "fetch" => ~HoldsLock(w)

\* A retry-mode call, which takes no lock, is the only one that fetches without it.
C32_LockedCallsFetchUnderLock ==
    \A w \in Workers : (pc[w] = "fetch" /\ ~retry[w]) => HoldsLock(w)

(***************************************************************************)
(* Claims about the log of the reconciler                                  *)
(***************************************************************************)
\* C33: no file is removed without a log record naming its path emitted before
\* the removal: every file the reconciler has removed is named in its log.
C33_LoggedBeforeRemoved == deleted \subseteq dlog

\* The record does follow: a pass that returned has logged every removal.
C33_LoggedByReturn == dpc = "returned" => deleted = dlog

(***************************************************************************)
(* Claims about the sub-batches of a task list                             *)
(***************************************************************************)
Started(t) == tstate[t] # "pending"

\* C34: in the thread-pool and the async download_files_parallel, when a task of
\* sub-batch k+1 has started, every task of sub-batch k has finished and a pause
\* has elapsed after it.
C34_PauseBetweenSubBatches ==
    variant \in {"threads", "async"} =>
        \A t \in Tasks :
            (Started(t) /\ SubBatch(t) > 0) =>
                /\ \A u \in Tasks : SubBatch(u) = SubBatch(t) - 1 => tstate[u] = "done"
                /\ (SubBatch(t) - 1) \in pauses

\* The sub-batches do run one after another, in every variant.
C34_OneAfterAnother ==
    \A t, u \in Tasks : (Started(t) /\ SubBatch(u) < SubBatch(t)) => tstate[u] = "done"

\* process_batch_file pauses after every chunk.
C34_RowsPause ==
    variant = "rows" =>
        \A t \in Tasks : (Started(t) /\ SubBatch(t) > 0) => (SubBatch(t) - 1) \in pauses

\* C35: the downloads in flight in a process never exceed the bound: at most
\* max_workers tasks hold a permit of FastDownloader's semaphore, at most
\* max_workers run in the thread pool.
C35_InFlightBounded ==
    variant \in {"threads", "async"} => Cardinality(InFlight) <= max_workers

C35_Witness ==
    /\ variant \in {"threads", "async"}
    /\ max_workers = 1
    /\ batch_size = PoolBatchSize
    /\ cur = 1
    /\ Cardinality(InFlight) = 1
    /\ \E t \in Tasks : SubBatch(t) = cur /\ tstate[t] = "pending"

(***************************************************************************)
(* Claims about the configuration                                          *)
(***************************************************************************)
\* C36: whatever is typed, reset, saved and loaded, the chunk_size of
\* BatchConfig and of BatchSettings stays within 10..500, and so does the one in
\* a saved file.
C36_ChunkSizeInRange ==
    /\ settings \in MinChunkSize..MaxChunkSize
    /\ batchSettings \in MinChunkSize..MaxChunkSize
    /\ config_file # 0 => config_file \in MinChunkSize..MaxChunkSize

C36_Witness ==
    /\ settings = MinChunkSize
    /\ config_file = MaxChunkSize
    /\ batchSettings = 11

(***************************************************************************)
(* Claims about the read accessors of the ledger                           *)
(***************************************************************************)
\* C38: get_pending_urls returns exactly the urls that have a failure entry and
\* are not in the processed set.
C38_PendingUrls ==
    tpc = "ready" =>
        SeqRange(get_pending_urls(progress))
            = {PyStr(url) : url \in {u \in URLs : InFailed(u) /\ ~InProcessed(u)}}

\* What it returns: the failure entries themselves, one per failed url, whether
\* or not the url is in the processed list.
C38_ReturnsFailedEntries ==
    /\ Len(get_pending_urls(progress)) = Len(progress.failed)
    /\ \A i \in 1..Len(progress.failed) :
          get_pending_urls(progress)[i] = PyDict(progress.failed[i])

(***************************************************************************)
(* Claims about the base key                                               *)
(***************************************************************************)
\* The stem ends in an underscore followed by six digits.
EndsInUnderscoreId(stem) ==
    /\ Len(stem) > IdDigits
    /\ stem[Len(stem) - IdDigits] = "_"
    /\ EndsInId(stem)

\* C37: the base key of a file name is its stem without a trailing underscore
\* and six digits; a stem that does not end in such a suffix is kept whole.
C37_BaseKey ==
    gpc = "keyed" =>
        base_name = IF EndsInUnderscoreId(filename.stem)
                       THEN SubSeq(filename.stem, 1, Len(filename.stem) - IdDigits - 1)
                       ELSE filename.stem

\* A stem that does not end in six digits is kept whole, and one that ends in an
\* underscore and six digits loses exactly that suffix.
C37_KeptWithoutDigits ==
    gpc = "keyed" =>
        /\ ~EndsInId(filename.stem) => base_name = filename.stem
        /\ EndsInUnderscoreId(filename.stem)
              => base_name = SubSeq(filename.stem, 1, Len(filename.stem) - IdDigits - 1)

(***************************************************************************)
(* Claims about failed attempts                                            *)
(***************************************************************************)
HasReturned(w) == pc[w] \in {"finally", "done"}

\* C39: an attempt that returned failure has left no file at the destination:
\* when the path was free before and every attempt that opened it has failed,
\* the path is still free, and no call returns success from the existence check
\* unless the file was there before or an attempt wrote it through.
C39_FailureLeavesNoFile ==
    /\ (~initExists /\ \A w \in wrote : HasReturned(w) /\ ~result[w][1])
          => dest = "absent"
    /\ \A w \in Workers :
          (w \in checked /\ w \notin fetched /\ result[w] = <<TRUE, None>>)
             => \/ initExists
                \/ \E v \in wrote : ~HasReturned(v) \/ result[v] = <<TRUE, None>>

\* A failure that came before the file was opened (a non-200 status, an
\* exception of requests.get) has left nothing.
C39_NoFileBeforeOpen ==
    (~initExists /\ wrote = {}) => dest = "absent"

(***************************************************************************)
(* Claims about loading an invalid config file                             *)
(***************************************************************************)
\* C40: load on a config file with invalid JSON returns after at most one
\* restore, with False and the default settings in effect.
C40_OneRestoreAtMost ==
    cfile0 = InvalidJson =>
        /\ restores <= 1
        /\ lpc = "returned" => (lresult = FALSE /\ loaded = DefaultChunkSize)

\* The first load does return False on an invalid file, however many restores
\* ran below it.
C40_ReturnsFalse ==
    (cfile0 = InvalidJson /\ lpc = "returned") => lresult = FALSE

\* When the copy to the backup went through, the backup is the invalid file
\* itself, and every restore puts the invalid file back.
C40_RestoreFromItself ==
    (cfile0 = InvalidJson /\ bak = InvalidJson /\ restores > 0) => cfile = InvalidJson

====
